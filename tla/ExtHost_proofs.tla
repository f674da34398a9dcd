--------------------------- MODULE ExtHost_proofs ---------------------------
(***************************************************************************)
(* Proofs about ExtHost: the references of every impl are counted right,   *)
(* a request is answered by its own port and never started afterwards, a   *)
(* closed port has neither names nor waiting requests, no control message  *)
(* is lost, and an attach is whole.                                        *)
(***************************************************************************)
EXTENDS ExtHost, Integers, FiniteSetTheorems, WellFoundedInduction, TLAPS

\* Expanded in every leaf: the tuples behind UNCHANGED.
USE DEF hostVars, bridgeVars, portVars, poolVars, sigVars, callVars, sessionVars

LEMMA Bounds ==
    /\ Slots \subseteq Nat /\ RingCap \in Nat /\ MaxGen \in Nat
    /\ IsFiniteSet(Slots) /\ IsFiniteSet(Calls) /\ IsFiniteSet(Workers)
    /\ NoPort \notin Ports /\ Nobody \notin Sessions /\ Nobody \notin Messages
    /\ Calls \cap Signalers = {}
BY HostAssumption
USE Bounds

-----------------------------------------------------------------------------
(* The slot that is looked at next is one of those that are left.          *)

Below == {ss \in Nat \X Nat : ss[1] < ss[2]}

LEMMA LeastIn ==
    ASSUME NEW S \in SUBSET Nat, S # {}
    PROVE  Least(S) \in S
<1>1. IsWellFoundedOn(Below, Nat)
  BY NatLessThanWellFounded, Zenon DEF OpToRel, Below
<1>2. PICK x \in S : \A y \in S : ~ (<<y, x>> \in Below)
  BY <1>1, WFMin
<1>3. ASSUME NEW y \in S PROVE x <= y
  <2>1. ~ (<<y, x>> \in Below) BY <1>2
  <2>2. x \in Nat /\ y \in Nat OBVIOUS
  <2>3. y < x => <<y, x>> \in Below BY <2>2 DEF Below
  <2> QED BY <2>1, <2>2, <2>3
<1> QED BY <1>3 DEF Least

LEMMA LeastSlot ==
    ASSUME NEW S \in SUBSET Slots, S # {}
    PROVE  Least(S) \in S /\ Least(S) \in Slots
<1>1. S \in SUBSET Nat OBVIOUS
<1> QED BY <1>1, LeastIn

-----------------------------------------------------------------------------
(* Types, without the promise that no reference count is negative: that    *)
(* follows from what is counted.                                           *)

HostTypes ==
    /\ running \in BOOLEAN /\ host \in {"running", "stopping", "pools", "stopped"}

BridgeTypes ==
    /\ bridge \in {"poll", "closing", "stopping", "draining", "down"}
    /\ resume \in {"poll", "draining"} /\ client \in Sessions \cup {Nobody}
    /\ scan \subseteq Slots /\ shutting \in Ports \cup {NoPort}

PortTypes ==
    /\ gen \in [Slots -> 0 .. MaxGen] /\ open \in [Slots -> BOOLEAN]
    /\ refs \in [Ports -> Int] /\ closed \subseteq Ports
    /\ \A s \in Slots : open[s] => <<s, gen[s]>> \in Ports

CallRecord ==
    [at : {"new", "waiting", "ended", "done"}, port : Ports \cup {NoPort},
     by : Ports \cup {NoPort}, st : {"none", "queued", "running", "cancelled"}]

CallTypes ==
    /\ call \in [Calls -> CallRecord]
    /\ invoked \subseteq Calls

PoolTypes ==
    /\ queue \in Seq(Messages) /\ stopPool \in BOOLEAN
    /\ wk \in [Workers -> [at : {"idle", "taken", "open", "invoking"},
                           msg : Messages \cup {Nobody}]]
    /\ \A w \in Workers : wk[w].msg = Nobody <=> wk[w].at = "idle"
    /\ sig \in [Signalers -> Ports \cup {NoPort}] /\ sigRing \in Seq(Signalers)

Replies == [call : Calls, port : Ports]

RingTypes ==
    /\ replies \in Seq(Replies)
    /\ ctl \in Seq(Sessions)

SourceTypes == source \in [Names -> Ports \cup {NoPort}]

Requests ==
    [op : {"none", "provide", "close", "ctx"}, port : Ports \cup {NoPort},
     name : Names \cup {Nobody}]

SessionTypes ==
    /\ stage \in [Sessions -> {"idle", "open", "provide", "undo", "replace", "detach", "ctx"}]
    /\ io \in [Sessions -> {"no", "push", "wait", "done"}]
    /\ req \in [Sessions -> Requests] /\ rc \in [Sessions -> Results]
    /\ mine \in [Sessions -> Ports \cup {NoPort}] /\ left \in [Sessions -> SUBSET Names]
    /\ holder \in Sessions \cup {Nobody} /\ gPort \in Ports \cup {NoPort}

BaseInv ==
    /\ HostTypes /\ BridgeTypes /\ PortTypes /\ CallTypes /\ PoolTypes /\ RingTypes
    /\ SourceTypes /\ SessionTypes

LEMMA BaseInit == Init => BaseInv
<1> SUFFICES ASSUME Init PROVE BaseInv
    OBVIOUS
<1> USE DEF Init
<1>1. HostTypes /\ BridgeTypes BY DEF HostTypes, BridgeTypes
<1>2. PortTypes /\ SourceTypes BY DEF PortTypes, SourceTypes
<1>3. CallTypes BY DEF CallTypes, CallRecord
<1>4. PoolTypes
  <2>1. <<>> \in Seq(Messages) /\ <<>> \in Seq(Signalers) OBVIOUS
  <2> QED BY <2>1 DEF PoolTypes
<1>6. RingTypes BY DEF RingTypes
<1>5. SessionTypes BY DEF SessionTypes, Requests, NoReq, Results
<1> QED BY <1>1, <1>2, <1>3, <1>4, <1>5, <1>6 DEF BaseInv

LEMMA Types ==
    ASSUME BaseInv
    PROVE  /\ HostTypes /\ BridgeTypes /\ PortTypes /\ CallTypes /\ PoolTypes /\ RingTypes
           /\ SourceTypes /\ SessionTypes
BY DEF BaseInv

-----------------------------------------------------------------------------
(* What the helpers of several actions do.                                 *)

\* The message of the session whose control message is next.
LEMMA HeadTypes ==
    ASSUME BaseInv
    PROVE  /\ ctl # <<>> => Head(ctl) \in Sessions /\ Tail(ctl) \in Seq(Sessions)
           /\ queue # <<>> => Head(queue) \in Messages /\ Tail(queue) \in Seq(Messages)
           /\ sigRing # <<>> => Head(sigRing) \in Signalers /\ Tail(sigRing) \in Seq(Signalers)
           /\ replies # <<>> => /\ Head(replies) \in Replies
                                /\ Tail(replies) \in Seq(Replies)
<1>1. /\ ctl \in Seq(Sessions) /\ queue \in Seq(Messages) /\ sigRing \in Seq(Signalers)
      /\ replies \in Seq(Replies)
  BY DEF BaseInv, PoolTypes, RingTypes
<1>2. ctl # <<>> => Head(ctl) \in Sessions /\ Tail(ctl) \in Seq(Sessions) BY <1>1
<1>3. queue # <<>> => Head(queue) \in Messages /\ Tail(queue) \in Seq(Messages) BY <1>1
<1>4. sigRing # <<>> => Head(sigRing) \in Signalers /\ Tail(sigRing) \in Seq(Signalers) BY <1>1
<1>5. replies # <<>> => /\ Head(replies) \in Replies
                        /\ Tail(replies) \in Seq(Replies)
  BY <1>1
<1> QED BY <1>2, <1>3, <1>4, <1>5

LEMMA WaitingFinite ==
    ASSUME NEW F, F \subseteq Calls
    PROVE  IsFiniteSet(F) /\ Cardinality(F) \in Nat
BY FS_Subset, FS_CardinalityType

LEMMA RequestTyped ==
    ASSUME BaseInv, NEW t \in Sessions, NEW o \in {"close", "ctx", "provide"},
           NEW p \in Ports \cup {NoPort}, NEW n \in Names \cup {Nobody},
           Request(t, [op |-> o, port |-> p, name |-> n])
    PROVE  /\ io' \in [Sessions -> {"no", "push", "wait", "done"}]
           /\ req' \in [Sessions -> Requests] /\ rc' \in [Sessions -> Results]
<1> PICK r : r = [op |-> o, port |-> p, name |-> n] OBVIOUS
<1>1. r \in Requests BY DEF Requests
<1>2. /\ req' = [req EXCEPT ![t] = r]
      /\ \/ io' = [io EXCEPT ![t] = "push"] /\ rc' = rc
         \/ io' = [io EXCEPT ![t] = "done"] /\ rc' = [rc EXCEPT ![t] = "stale"]
  BY DEF Request
<1> QED BY <1>1, <1>2, Types DEF SessionTypes, Results

LEMMA SessionStep ==
    ASSUME BaseInv, NEW t \in Sessions, Session(t)
    PROVE  SessionTypes'
<1> USE DEF SessionTypes
<1>a. SessionTypes BY Types
<1>1. CASE Attach(t) BY <1>1, <1>a DEF Attach
<1>2. CASE OpenPort(t)
  <2>1. CASE \E s \in Slots : ~open[s]
    <3> PICK p : p \in Ports /\ mine' = [mine EXCEPT ![t] = p] BY <1>2, <2>1 DEF OpenPort
    <3>1. /\ left' = [left EXCEPT ![t] = Names] /\ stage' = [stage EXCEPT ![t] = "provide"]
          /\ UNCHANGED <<io, req, rc, holder, gPort>>
      BY <1>2, <2>1 DEF OpenPort
    <3> QED BY <3>1, <1>a
  <2>2. CASE ~(\E s \in Slots : ~open[s]) BY <1>2, <2>2, <1>a DEF OpenPort
  <2> QED BY <2>1, <2>2
<1>3. CASE Provide(t)
  <2>1. PICK n \in left[t] : Request(t, [op |-> "provide", port |-> mine[t], name |-> n])
    BY <1>3 DEF Provide
  <2>2. n \in Names /\ mine[t] \in Ports \cup {NoPort} BY <1>a
  <2>3. /\ io' \in [Sessions -> {"no", "push", "wait", "done"}]
        /\ req' \in [Sessions -> Requests] /\ rc' \in [Sessions -> Results]
    BY <2>1, <2>2, RequestTyped
  <2> QED BY <1>3, <2>3, <1>a DEF Provide
<1>4. CASE ClosePort(t)
  <2>1. mine[t] \in Ports \cup {NoPort} BY <1>a
  <2>2. /\ io' \in [Sessions -> {"no", "push", "wait", "done"}]
        /\ req' \in [Sessions -> Requests] /\ rc' \in [Sessions -> Results]
    BY <1>4, <2>1, RequestTyped DEF ClosePort
  <2> QED BY <1>4, <2>2, <1>a DEF ClosePort
<1>5. CASE Detach(t) BY <1>5, <1>a DEF Detach
<1>6. CASE CloseCtx(t)
  <2>2. /\ io' \in [Sessions -> {"no", "push", "wait", "done"}]
        /\ req' \in [Sessions -> Requests] /\ rc' \in [Sessions -> Results]
    BY <1>6, RequestTyped DEF CloseCtx
  <2> QED BY <1>6, <2>2, <1>a DEF CloseCtx
<1>7. CASE PostCtl(t) BY <1>7, <1>a DEF PostCtl, Results
<1>8. CASE Returned(t)
  <2>1. NoReq \in Requests BY DEF NoReq, Requests
  <2>2. /\ io' \in [Sessions -> {"no", "push", "wait", "done"}]
        /\ req' \in [Sessions -> Requests] /\ rc' \in [Sessions -> Results]
    BY <1>8, <1>a, <2>1 DEF Returned, Results
  <2>3. ASSUME Leave(t), gPort' \in Ports \cup {NoPort} PROVE SessionTypes'
    BY <1>a, <2>2, <2>3 DEF Leave
  <2>4. ASSUME NEW x \in {"undo", "provide", "replace"}, NEW p \in Ports \cup {NoPort}, NEW N \in SUBSET Names,
               Continue(t, x, p, N), gPort' \in Ports \cup {NoPort}
        PROVE  SessionTypes'
    BY <1>a, <2>2, <2>4 DEF Continue
  <2>5. CASE AttachFails(t) BY <1>a, <2>4, <2>5 DEF AttachFails
  <2>6. CASE NameProvided(t)
    <3> PICK N : N = left[t] \ {req[t].name} OBVIOUS
    <3>1. N \in SUBSET Names /\ mine[t] \in Ports \cup {NoPort} BY <1>a
    <3>2. CASE N # {} BY <1>a, <2>4, <2>6, <3>1, <3>2 DEF NameProvided
    <3>3. CASE N = {} /\ gPort = NoPort BY <1>a, <2>3, <2>6, <3>1, <3>3 DEF NameProvided
    <3>4. CASE N = {} /\ gPort # NoPort BY <1>a, <2>4, <2>6, <3>1, <3>4 DEF NameProvided
    <3> QED BY <3>2, <3>3, <3>4
  <2>7. CASE PortClosed(t) BY <1>a, <2>3, <2>7 DEF PortClosed
  <2> QED BY <1>8, <2>5, <2>6, <2>7 DEF Returned
<1> QED BY <1>1, <1>2, <1>3, <1>4, <1>5, <1>6, <1>7, <1>8 DEF Session

LEMMA SessionTypesStep ==
    ASSUME BaseInv, [Next]_vars
    PROVE  SessionTypes'
<1> USE DEF SessionTypes
<1>a. SessionTypes BY Types
<1>0. ASSUME UNCHANGED sessionVars PROVE SessionTypes' BY <1>0, <1>a
<1>b. ASSUME NEW t \in Sessions, NEW r \in Results, Answer(t, r),
             UNCHANGED <<stage, req, mine, left, holder, gPort>>
      PROVE  SessionTypes'
  BY <1>a, <1>b DEF Answer
<1>2. ASSUME NEW c \in Calls, NEW p \in Ports, ExtReply(c, p) PROVE SessionTypes' BY <1>0, <1>2 DEF ExtReply
<1>3. CASE Bridge
  <2>1. CASE CtlPoll
    <3>1. Head(ctl) \in Sessions BY <2>1, HeadTypes DEF CtlPoll
    <3>2. CASE RunProvide(req[Head(ctl)])
      <4>1. \E r \in Results : Answer(Head(ctl), r) BY <3>2 DEF RunProvide, Results
      <4> QED BY <1>b, <2>1, <3>1, <4>1 DEF CtlPoll
    <3>3. CASE RunClose(req[Head(ctl)])
      <4>1. Answer(Head(ctl), "stale") \/ UNCHANGED <<io, rc>> BY <3>3 DEF RunClose
      <4>2. "stale" \in Results BY DEF Results
      <4> QED BY <1>0, <1>b, <2>1, <3>1, <4>1, <4>2 DEF CtlPoll
    <3> QED BY <2>1, <3>2, <3>3 DEF CtlPoll
  <2>2. CASE CtlDone
    <3>1. SessionTypes' 
      <4>1. "ok" \in Results BY DEF Results
      <4>2. Answer(client, "ok") /\ UNCHANGED <<stage, req, mine, left, holder, gPort>> BY <2>2 DEF CtlDone
      <4> QED BY <1>a, <4>1, <4>2 DEF Answer
    <3> QED BY <3>1
  <2>3. CASE CloseWithdraws \/ CloseEnds \/ ReplyPoll \/ SigPoll \/ BridgeStops \/ BridgeFailsAll \/ BridgeDown
    BY <1>0, <2>3 DEF CloseWithdraws, CloseEnds, ReplyPoll, SigPoll, BridgeStops, BridgeFailsAll, BridgeDown
  <2> QED BY <1>3, <2>1, <2>2, <2>3 DEF Bridge
<1>4. ASSUME NEW c \in Calls, ExtCall(c) \/ Abandon(c) \/ CallReturns(c) PROVE SessionTypes'
  BY <1>0, <1>4 DEF ExtCall, Abandon, CallReturns
<1>6. ASSUME NEW g \in Signalers, ExtSignal(g) PROVE SessionTypes' BY <1>0, <1>6 DEF ExtSignal
<1>7. ASSUME NEW w \in Workers, Worker(w) PROVE SessionTypes'
  BY <1>0, <1>7 DEF Worker, TakeMessage, SeeClosed, StartInvoke, EndInvoke
<1>8. CASE StopBegins \/ StopPool BY <1>0, <1>8 DEF StopBegins, StopPool
<1>9. CASE StopEnds
  <2> PICK L : L = {ctl[i] : i \in 1 .. Len(ctl)} OBVIOUS
  <2>1. /\ io' = [t \in Sessions |-> IF t \in L THEN "done" ELSE io[t]]
        /\ rc' = [t \in Sessions |-> IF t \in L THEN "shutdown" ELSE rc[t]]
        /\ UNCHANGED <<stage, req, mine, left, holder, gPort>>
    BY <1>9 DEF StopEnds
  <2> QED BY <1>a, <2>1 DEF Results
<1>10. CASE UNCHANGED vars BY <1>0, <1>10 DEF vars
<1> QED BY <1>2, <1>3, <1>4, <1>6, <1>7, <1>8, <1>9, <1>10, SessionStep DEF Next, Foreign

\* What EndCalls does to the requests.
Ended(F, a, p) ==
    /\ \A c \in Calls \ F : call'[c] = call[c]
    /\ \A c \in F : /\ call'[c].at = a /\ call'[c].by = p
                    /\ call'[c].port = call[c].port
                    /\ p = NoPort => call'[c].st # "queued"

LEMMA EndCallsFields ==
    ASSUME CallTypes, NEW F, F \subseteq Calls, NEW a, NEW p, EndCalls(F, a, p)
    PROVE  Ended(F, a, p)
<1>1. call' = [c \in Calls |->
                 IF c \notin F THEN call[c]
                 ELSE [call[c] EXCEPT !.at = a, !.by = p,
                           !.st = IF p = NoPort /\ @ = "queued" THEN "cancelled" ELSE @]]
  BY DEF EndCalls
<1>2. ASSUME NEW c \in F
      PROVE  /\ call'[c].at = a /\ call'[c].by = p
             /\ call'[c].port = call[c].port
             /\ p = NoPort => call'[c].st # "queued"
  <2>1. call[c] \in CallRecord BY DEF CallTypes
  <2>2. call'[c] = [call[c] EXCEPT !.at = a, !.by = p,
                        !.st = IF p = NoPort /\ @ = "queued" THEN "cancelled" ELSE @]
    BY <1>1
  <2> QED BY <2>1, <2>2 DEF CallRecord
<1>3. \A c \in Calls \ F : call'[c] = call[c] BY <1>1
<1> QED BY <1>2, <1>3 DEF Ended

LEMMA EndCallsTyped ==
    ASSUME CallTypes, NEW F, F \subseteq Calls, NEW a \in {"ended", "done"},
           NEW p \in Ports \cup {NoPort}, EndCalls(F, a, p)
    PROVE  call' \in [Calls -> CallRecord]
<1>1. call' = [c \in Calls |->
                 IF c \notin F THEN call[c]
                 ELSE [call[c] EXCEPT !.at = a, !.by = p,
                           !.st = IF p = NoPort /\ @ = "queued" THEN "cancelled" ELSE @]]
  BY DEF EndCalls
<1>2. ASSUME NEW c \in F PROVE call'[c] \in CallRecord
  <2>1. call[c] \in CallRecord BY DEF CallTypes
  <2>2. call'[c] = [call[c] EXCEPT !.at = a, !.by = p,
                        !.st = IF p = NoPort /\ @ = "queued" THEN "cancelled" ELSE @]
    BY <1>1
  <2> QED BY <2>1, <2>2 DEF CallRecord
<1>3. \A c \in Calls \ F : call'[c] = call[c] BY <1>1
<1>4. call' \in [Calls -> CallRecord] BY <1>1, <1>2, <1>3 DEF CallTypes
<1> QED BY <1>4

LEMMA UnreferencedTyped ==
    ASSUME BaseInv, NEW c \in Calls, Unreferenced(c)
    PROVE  refs' \in [Ports -> Int]
<1>1. refs \in [Ports -> Int] BY Types DEF PortTypes
<1> PICK q : q = call[c].port OBVIOUS
<1>2. refs' = [refs EXCEPT ![q] = @ - 1] BY DEF Unreferenced
<1>3. CASE q \in Ports BY <1>1, <1>2, <1>3
<1>4. CASE q \notin Ports
  <2>1. refs' = refs BY <1>1, <1>2, <1>4
  <2> QED BY <1>1, <2>1
<1> QED BY <1>3, <1>4

\* The fields of a request whose extCall returns.
LEMMA ReturnsFields ==
    ASSUME CallTypes, NEW c \in Calls, CallReturns(c)
    PROVE  /\ call' \in [Calls -> CallRecord]
           /\ \A d \in Calls \ {c} : call'[d] = call[d]
           /\ call[c].at = "ended" /\ call'[c].at = "done" /\ call'[c].by = call[c].by
           /\ call'[c].port = call[c].port /\ call'[c].st = call[c].st
<1>1. call \in [Calls -> CallRecord] /\ call' = [call EXCEPT ![c].at = "done"]
  BY DEF CallTypes, CallReturns
<1>2. call[c] \in CallRecord /\ call'[c] = [call[c] EXCEPT !.at = "done"] BY <1>1
<1>3. /\ call'[c] \in CallRecord /\ call'[c].at = "done" /\ call'[c].by = call[c].by
      /\ call'[c].port = call[c].port /\ call'[c].st = call[c].st
  BY <1>2 DEF CallRecord
<1>4. \A d \in Calls \ {c} : call'[d] = call[d] BY <1>1
<1>5. call' \in [Calls -> CallRecord] BY <1>1, <1>3, <1>4
<1>6. call[c].at = "ended" BY DEF CallReturns, CallTypes
<1> QED BY <1>3, <1>4, <1>5, <1>6

LEMMA WaitingCalls == Waiting \subseteq Calls
BY DEF Waiting

LEMMA HostTypesStep ==
    ASSUME BaseInv, [Next]_vars
    PROVE  HostTypes'
<1> USE DEF HostTypes
<1>a. HostTypes BY Types
<1>0. ASSUME UNCHANGED hostVars PROVE HostTypes' BY <1>0, <1>a
<1>1. ASSUME NEW t \in Sessions, Session(t) PROVE HostTypes'
  BY <1>0, <1>1 DEF Session, Attach, OpenPort, Provide, ClosePort, Detach, CloseCtx, PostCtl, Returned
<1>2. ASSUME NEW c \in Calls, NEW p \in Ports, ExtReply(c, p) PROVE HostTypes' BY <1>0, <1>2 DEF ExtReply
<1>3. CASE Bridge
  BY <1>0, <1>3 DEF Bridge, CtlPoll, CtlDone, CloseWithdraws, CloseEnds, ReplyPoll, SigPoll,
                    BridgeStops, BridgeFailsAll, BridgeDown
<1>4. ASSUME NEW c \in Calls, ExtCall(c) \/ Abandon(c) \/ CallReturns(c) PROVE HostTypes'
  BY <1>0, <1>4 DEF ExtCall, Abandon, CallReturns
<1>6. ASSUME NEW g \in Signalers, ExtSignal(g) PROVE HostTypes' BY <1>0, <1>6 DEF ExtSignal
<1>7. ASSUME NEW w \in Workers, Worker(w) PROVE HostTypes'
  BY <1>0, <1>7 DEF Worker, TakeMessage, SeeClosed, StartInvoke, EndInvoke
<1>8. CASE StopBegins \/ StopPool \/ StopEnds BY <1>a, <1>8 DEF StopBegins, StopPool, StopEnds
<1>10. CASE UNCHANGED vars BY <1>0, <1>10 DEF vars
<1> QED BY <1>1, <1>2, <1>3, <1>4, <1>6, <1>7, <1>8, <1>10 DEF Next, Foreign

LEMMA BridgeTypesStep ==
    ASSUME BaseInv, [Next]_vars
    PROVE  BridgeTypes' /\ SourceTypes'
<1> USE DEF BridgeTypes, SourceTypes
<1>a. BridgeTypes /\ SourceTypes BY Types
<1>0. ASSUME UNCHANGED <<bridgeVars, source>> PROVE BridgeTypes' /\ SourceTypes' BY <1>0, <1>a
<1>1. ASSUME NEW t \in Sessions, Session(t) PROVE BridgeTypes' /\ SourceTypes'
  BY <1>0, <1>1 DEF Session, Attach, OpenPort, Provide, ClosePort, Detach, CloseCtx, PostCtl, Returned
<1>2. ASSUME NEW c \in Calls, NEW p \in Ports, ExtReply(c, p) PROVE BridgeTypes' /\ SourceTypes'
  BY <1>0, <1>2 DEF ExtReply
<1>3. CASE Bridge
  <2>1. CASE CtlPoll
    <3>1. Head(ctl) \in Sessions /\ bridge \in {"poll", "draining"} BY <2>1, HeadTypes DEF CtlPoll
    <3> PICK r : r = req[Head(ctl)] OBVIOUS
    <3>2. r \in Requests BY <3>1, Types DEF SessionTypes
    <3>3. CASE RunProvide(r)
      <4>1. UNCHANGED bridgeVars /\ (source' = source \/ source' = [source EXCEPT ![r.name] = r.port])
        BY <3>3 DEF RunProvide
      <4> QED BY <1>a, <3>2, <4>1 DEF Requests
    <3>4. CASE RunClose(r)
      <4>1. source' = source /\ (UNCHANGED bridgeVars \/ 
              /\ bridge' = "closing" /\ resume' = bridge /\ client' = Head(ctl) /\ shutting' = shutting
              /\ scan' = (IF r.op = "ctx" THEN Slots ELSE {r.port[1]}) /\ ~Stale(r))
        BY <3>4 DEF RunClose
      <4>2. ~Stale(r) => r.op = "ctx" \/ r.port[1] \in Slots BY DEF Stale, IsOpen, Ports
      <4> QED BY <1>a, <3>1, <4>1, <4>2
    <3> QED BY <2>1, <3>3, <3>4 DEF CtlPoll
  <2>2. CASE CtlDone BY <1>a, <2>2 DEF CtlDone
  <2>3. CASE CloseWithdraws
    <3> PICK s : s = Least(scan) OBVIOUS
    <3>1. s \in Slots BY <1>a, <2>3, LeastSlot DEF CloseWithdraws
    <3> PICK p : p = <<s, gen[s]>> OBVIOUS
    <3>2. CASE open[s]
      <4>1. /\ shutting' = p /\ source' = [n \in Names |-> IF source[n] = p THEN NoPort ELSE source[n]]
            /\ UNCHANGED <<bridge, resume, client, scan>>
        BY <2>3, <3>2 DEF CloseWithdraws
      <4>2. p \in Ports BY <3>1, <3>2, Types DEF PortTypes
      <4> QED BY <1>a, <4>1, <4>2
    <3>3. CASE ~open[s] BY <1>a, <2>3, <3>3 DEF CloseWithdraws
    <3> QED BY <3>2, <3>3
  <2>4. CASE CloseEnds BY <1>a, <2>4 DEF CloseEnds
  <2>5. CASE BridgeStops \/ BridgeFailsAll \/ BridgeDown
    BY <1>a, <2>5 DEF BridgeStops, BridgeFailsAll, BridgeDown
  <2>6. CASE ReplyPoll \/ SigPoll BY <1>0, <2>6 DEF ReplyPoll, SigPoll
  <2> QED BY <1>3, <2>1, <2>2, <2>3, <2>4, <2>5, <2>6 DEF Bridge
<1>4. ASSUME NEW c \in Calls, ExtCall(c) \/ Abandon(c) \/ CallReturns(c) PROVE BridgeTypes' /\ SourceTypes'
  BY <1>0, <1>4 DEF ExtCall, Abandon, CallReturns
<1>6. ASSUME NEW g \in Signalers, ExtSignal(g) PROVE BridgeTypes' /\ SourceTypes' BY <1>0, <1>6 DEF ExtSignal
<1>7. ASSUME NEW w \in Workers, Worker(w) PROVE BridgeTypes' /\ SourceTypes'
  BY <1>0, <1>7 DEF Worker, TakeMessage, SeeClosed, StartInvoke, EndInvoke
<1>8. CASE StopBegins \/ StopPool \/ StopEnds BY <1>0, <1>8 DEF StopBegins, StopPool, StopEnds
<1>10. CASE UNCHANGED vars BY <1>0, <1>10 DEF vars
<1> QED BY <1>1, <1>2, <1>3, <1>4, <1>6, <1>7, <1>8, <1>10 DEF Next, Foreign

LEMMA PortTypesStep ==
    ASSUME BaseInv, [Next]_vars
    PROVE  PortTypes'
<1> USE DEF PortTypes
<1>a. PortTypes BY Types
<1>0. ASSUME UNCHANGED portVars PROVE PortTypes' BY <1>0, <1>a
<1>b. ASSUME UNCHANGED <<gen, open, closed>>, refs' \in [Ports -> Int] PROVE PortTypes'
  BY <1>b, <1>a
<1>1. ASSUME NEW t \in Sessions, Session(t) PROVE PortTypes'
  <2>1. CASE OpenPort(t)
    <3> PICK s : s = Least({x \in Slots : ~open[x]}) OBVIOUS
    <3>1. CASE \E x \in Slots : ~open[x]
      <4>1. s \in Slots BY <3>1, LeastSlot
      <4> PICK p : p = <<s, gen[s] + 1>> OBVIOUS
      <4>2. /\ p \in Ports /\ gen' = [gen EXCEPT ![s] = @ + 1] /\ open' = [open EXCEPT ![s] = TRUE]
            /\ refs' = [refs EXCEPT ![p] = 1] /\ closed' = closed
        BY <2>1, <3>1 DEF OpenPort
      <4>3. gen[s] + 1 \in 0 .. MaxGen BY <1>a, <4>1, <4>2 DEF Ports
      <4> QED BY <1>a, <4>1, <4>2, <4>3
    <3>2. CASE ~ \E x \in Slots : ~open[x] BY <1>0, <2>1, <3>2 DEF OpenPort
    <3> QED BY <3>1, <3>2
  <2>2. CASE Attach(t) \/ Provide(t) \/ ClosePort(t) \/ Detach(t) \/ CloseCtx(t) \/ PostCtl(t) \/ Returned(t)
    BY <1>0, <2>2 DEF Attach, Provide, ClosePort, Detach, CloseCtx, PostCtl, Returned
  <2> QED BY <1>1, <2>1, <2>2 DEF Session
<1>2. ASSUME NEW c \in Calls, NEW p \in Ports, ExtReply(c, p) PROVE PortTypes' BY <1>0, <1>2 DEF ExtReply
<1>3. CASE Bridge
  <2>2. CASE CloseEnds
    <3>1. shutting \in Ports BY <2>2, Types DEF CloseEnds, BridgeTypes
    <3>2. /\ gen' = gen /\ open' = [open EXCEPT ![shutting[1]] = FALSE]
          /\ closed' = closed \cup {shutting} /\ refs' = [refs EXCEPT ![shutting] = @ - 1]
      BY <2>2 DEF CloseEnds
    <3>3. refs' \in [Ports -> Int] /\ closed' \subseteq Ports BY <1>a, <3>1, <3>2
    <3>4. open' \in [Slots -> BOOLEAN] /\ \A s \in Slots : open'[s] => open[s] BY <1>a, <3>2
    <3> QED BY <1>a, <3>2, <3>3, <3>4
  <2>4. CASE SigPoll
    <3> PICK p : p = sig[Head(sigRing)] OBVIOUS
    <3>1. UNCHANGED <<gen, open, closed>> /\ refs' = [refs EXCEPT ![p] = @ - 1]
      BY <2>4 DEF SigPoll
    <3>2. CASE p \in Ports
      <4>1. refs' \in [Ports -> Int] BY <1>a, <3>1, <3>2
      <4> QED BY <1>a, <3>1, <4>1
    <3>3. CASE p \notin Ports
      <4>1. refs' = refs BY <1>a, <3>1, <3>3
      <4> QED BY <1>0, <3>1, <4>1
    <3> QED BY <3>2, <3>3
  <2>6. CASE CtlPoll \/ CtlDone \/ CloseWithdraws \/ ReplyPoll \/ BridgeStops \/ BridgeFailsAll \/ BridgeDown
    BY <1>0, <2>6 DEF CtlPoll, CtlDone, CloseWithdraws, ReplyPoll, BridgeStops, BridgeFailsAll, BridgeDown
  <2> QED BY <1>3, <2>2, <2>4, <2>6 DEF Bridge
<1>4. ASSUME NEW c \in Calls, ExtCall(c) PROVE PortTypes'
  <2>1. UNCHANGED <<gen, open, closed>> /\ refs' \in [Ports -> Int]
    <3> PICK n \in Names :
             \/ refs' = refs
             \/ refs' = [refs EXCEPT ![source[n]] = @ + 2] 
             \/ refs' = [refs EXCEPT ![source[n]] = @ + 1]
      BY <1>4 DEF ExtCall
    <3> QED BY <1>a, <1>4 DEF ExtCall
  <2> QED BY <1>b, <2>1
<1>5. ASSUME NEW c \in Calls, Abandon(c) \/ CallReturns(c) PROVE PortTypes'
  <2>1. UNCHANGED <<gen, open, closed>> /\ Unreferenced(c) BY <1>5 DEF Abandon, CallReturns
  <2> QED BY <1>b, <2>1, UnreferencedTyped
<1>6. ASSUME NEW g \in Signalers, ExtSignal(g) PROVE PortTypes'
  <2>1. UNCHANGED <<gen, open, closed>> /\ \E p \in Ports : refs' = [refs EXCEPT ![p] = @ + 1]
    BY <1>6 DEF ExtSignal, IsOpen
  <2> QED BY <1>a, <1>b, <2>1
<1>7. ASSUME NEW w \in Workers, Worker(w) PROVE PortTypes'
  <2>1. UNCHANGED <<gen, open, closed>> /\
        (refs' = refs \/ refs' = [refs EXCEPT ![PortOf(wk[w].msg)] = @ - 1])
    BY <1>7 DEF Worker, TakeMessage, SeeClosed, StartInvoke, EndInvoke, Drop
  <2> QED BY <1>a, <2>1
<1>8. CASE StopBegins BY <1>0, <1>8 DEF StopBegins
<1>9. CASE StopPool \/ StopEnds
  <2>1. ASSUME NEW p \in Ports PROVE refs[p] - InQueue(p) \in Int /\ refs[p] - InSigRing(p) \in Int
    <3>1. Len(queue) \in Nat /\ Len(sigRing) \in Nat BY Types DEF PoolTypes
    <3>2. IsFiniteSet(1 .. Len(queue)) /\ IsFiniteSet(1 .. Len(sigRing)) BY <3>1, FS_Interval
    <3>3. {i \in 1 .. Len(queue) : PortOf(queue[i]) = p} \subseteq 1 .. Len(queue) OBVIOUS
    <3>4. {i \in 1 .. Len(sigRing) : PortOf(sigRing[i]) = p} \subseteq 1 .. Len(sigRing) OBVIOUS
    <3>5. InQueue(p) \in Nat BY <3>2, <3>3, FS_Subset, FS_CardinalityType DEF InQueue
    <3>6. InSigRing(p) \in Nat BY <3>2, <3>4, FS_Subset, FS_CardinalityType DEF InSigRing
    <3> QED BY <3>5, <3>6, <1>a
  <2>2. UNCHANGED <<gen, open, closed>> /\ 
        (refs' = [p \in Ports |-> refs[p] - InQueue(p)] \/ refs' = [p \in Ports |-> refs[p] - InSigRing(p)])
    BY <1>9 DEF StopPool, StopEnds
  <2> QED BY <1>b, <2>1, <2>2
<1>10. CASE UNCHANGED vars BY <1>0, <1>10 DEF vars
<1> QED BY <1>1, <1>2, <1>3, <1>4, <1>5, <1>6, <1>7, <1>8, <1>9, <1>10 DEF Next, Foreign

\* What a request becomes when it is issued.
IssuedAs(c, p, a, s) ==
    /\ call' = [call EXCEPT ![c] = [at |-> a, port |-> p, st |-> s, by |-> NoPort]]
    /\ \/ /\ a = "done" /\ s = "none" /\ UNCHANGED <<refs, queue, invoked>>
       \/ /\ a = "waiting" /\ s = "queued" /\ p # NoPort
          /\ refs' = [refs EXCEPT ![p] = @ + 2] /\ queue' = Append(queue, c)
          /\ UNCHANGED invoked
       \/ /\ a = "waiting" /\ s = "none" /\ p # NoPort
          /\ refs' = [refs EXCEPT ![p] = @ + 1] /\ Invoke({c}) /\ UNCHANGED queue
    /\ \E n \in Names : p = source[n]

LEMMA Issued ==
    ASSUME BaseInv, NEW c \in Calls, ExtCall(c)
    PROVE  \E p \in Ports \cup {NoPort}, a \in {"waiting", "done"}, s \in {"none", "queued"} :
             IssuedAs(c, p, a, s)
<1>1. \A n \in Names : source[n] \in Ports \cup {NoPort} BY Types DEF SourceTypes
<1>2. PICK n \in Names :
         \/ /\ call' = [call EXCEPT ![c] = [at |-> "done", port |-> source[n], st |-> "none", by |-> NoPort]]
            /\ UNCHANGED <<refs, queue, invoked>>
         \/ /\ call' = [call EXCEPT ![c] = [at |-> "waiting", port |-> source[n], st |-> "queued", by |-> NoPort]]
            /\ source[n] # NoPort /\ refs' = [refs EXCEPT ![source[n]] = @ + 2]
            /\ queue' = Append(queue, c) /\ UNCHANGED invoked
         \/ /\ call' = [call EXCEPT ![c] = [at |-> "waiting", port |-> source[n], st |-> "none", by |-> NoPort]]
            /\ source[n] # NoPort /\ refs' = [refs EXCEPT ![source[n]] = @ + 1]
            /\ Invoke({c}) /\ UNCHANGED queue
  BY DEF ExtCall
<1>3. source[n] \in Ports \cup {NoPort} BY <1>1
<1> QED BY <1>2, <1>3 DEF IssuedAs

LEMMA CallTypesStep ==
    ASSUME BaseInv, [Next]_vars
    PROVE  CallTypes'
<1> USE DEF CallTypes
<1>a. CallTypes BY Types
<1>0. ASSUME UNCHANGED callVars PROVE CallTypes' BY <1>0, <1>a
<1>b. ASSUME NEW F, F \subseteq Calls, NEW a \in {"ended", "done"},
             NEW p \in Ports \cup {NoPort}, EndCalls(F, a, p), UNCHANGED invoked
      PROVE  CallTypes'
  <2>1. call' \in [Calls -> CallRecord] BY <1>a, <1>b, EndCallsTyped
  <2> QED BY <1>a, <1>b, <2>1
<1>1. ASSUME NEW t \in Sessions, Session(t) PROVE CallTypes'
  BY <1>0, <1>1 DEF Session, Attach, OpenPort, Provide, ClosePort, Detach, CloseCtx, PostCtl, Returned
<1>2. ASSUME NEW c \in Calls, NEW p \in Ports, ExtReply(c, p) PROVE CallTypes' BY <1>0, <1>2 DEF ExtReply
<1>3. CASE Bridge
  <2>1. CASE CloseWithdraws
    <3> PICK F : F = {c \in Waiting : call[c].port = <<Least(scan), gen[Least(scan)]>>} OBVIOUS
    <3>1. F \subseteq Calls BY WaitingCalls
    <3>2. UNCHANGED invoked /\ (EndCalls(F, "ended", NoPort) \/ UNCHANGED call)
      BY <2>1 DEF CloseWithdraws
    <3> QED BY <1>0, <1>b, <3>1, <3>2
  <2>2. CASE ReplyPoll
    <3> PICK r : r = Head(replies) OBVIOUS
    <3>1. r \in Replies BY <2>2, HeadTypes DEF ReplyPoll
    <3>2. UNCHANGED invoked /\ (EndCalls({r.call}, "ended", r.port) \/ UNCHANGED call)
      BY <2>2 DEF ReplyPoll
    <3>3. {r.call} \subseteq Calls /\ r.port \in Ports BY <3>1 DEF Replies
    <3> QED BY <1>0, <1>b, <3>2, <3>3
  <2>3. CASE SigPoll
    <3>1. Head(sigRing) \in Signalers BY <2>3, HeadTypes DEF SigPoll
    <3> QED BY <1>a, <2>3, <3>1 DEF SigPoll, Invoke, Messages
  <2>4. CASE BridgeFailsAll
    <3>1. UNCHANGED invoked /\ EndCalls(Waiting, "ended", NoPort) BY <2>4 DEF BridgeFailsAll
    <3> QED BY <1>b, <3>1, WaitingCalls
  <2>5. CASE CtlPoll \/ CloseEnds \/ CtlDone \/ BridgeStops \/ BridgeDown
    BY <1>0, <2>5 DEF CtlPoll, CloseEnds, CtlDone, BridgeStops, BridgeDown
  <2> QED BY <1>3, <2>1, <2>2, <2>3, <2>4, <2>5 DEF Bridge
<1>4. ASSUME NEW c \in Calls, ExtCall(c) PROVE CallTypes'
  <2>i. PICK p \in Ports \cup {NoPort}, a \in {"waiting", "done"}, s \in {"none", "queued"} :
           IssuedAs(c, p, a, s)
    BY <1>4, Issued
  <2>1. /\ call' = [call EXCEPT ![c] = [at |-> a, port |-> p, st |-> s, by |-> NoPort]]
        /\ UNCHANGED invoked \/ Invoke({c})
    BY <2>i DEF IssuedAs
  <2>2. [at |-> a, port |-> p, st |-> s, by |-> NoPort] \in CallRecord BY DEF CallRecord
  <2>3. invoked' \subseteq Calls BY <1>a, <1>4, <2>1 DEF ExtCall, Invoke, Messages
  <2> QED BY <1>a, <2>1, <2>2, <2>3
<1>5. ASSUME NEW c \in Calls, Abandon(c) PROVE CallTypes'
  <2>1. UNCHANGED invoked /\ EndCalls({c}, "done", NoPort) BY <1>5 DEF Abandon
  <2> QED BY <1>b, <2>1
<1>5r. ASSUME NEW c \in Calls, CallReturns(c) PROVE CallTypes'
  BY <1>a, <1>5r, ReturnsFields DEF CallReturns
<1>6. ASSUME NEW g \in Signalers, ExtSignal(g) PROVE CallTypes' BY <1>0, <1>6 DEF ExtSignal
<1>7. ASSUME NEW w \in Workers, Worker(w) PROVE CallTypes'
  <2>1. CASE StartInvoke(w)
    <3> PICK m : m = wk[w].msg OBVIOUS
    <3>1. m \in Messages \cup {Nobody} BY Types DEF PoolTypes
    <3>2. CASE ~Starts(m) BY <1>0, <2>1, <3>2 DEF StartInvoke
    <3>3. CASE Starts(m) /\ m \in Calls
      <4>1. call' = [call EXCEPT ![m].st = "running"] /\ Invoke({m})
        BY <2>1, <3>3 DEF StartInvoke
      <4>2. call[m] \in CallRecord BY <1>a, <3>3
      <4>3. call' \in [Calls -> CallRecord] BY <1>a, <4>1, <4>2 DEF CallRecord
      <4> QED BY <1>a, <3>3, <4>1, <4>3 DEF Invoke, Messages
    <3>4. CASE Starts(m) /\ m \notin Calls
      <4>1. call' = call /\ Invoke({m}) BY <2>1, <3>4 DEF StartInvoke
      <4>2. m \in Messages
        <5>1. wk[w].at = "open" BY <2>1 DEF StartInvoke
        <5>2. m # Nobody BY <5>1, Types DEF PoolTypes
        <5> QED BY <5>2, <3>1
      <4> QED BY <1>a, <4>1, <4>2 DEF Invoke
    <3> QED BY <3>2, <3>3, <3>4
  <2>2. CASE TakeMessage(w) \/ SeeClosed(w) \/ EndInvoke(w)
    BY <1>0, <2>2 DEF TakeMessage, SeeClosed, EndInvoke
  <2> QED BY <1>7, <2>1, <2>2 DEF Worker
<1>8. CASE StopBegins \/ StopPool \/ StopEnds BY <1>0, <1>8 DEF StopBegins, StopPool, StopEnds
<1>10. CASE UNCHANGED vars BY <1>0, <1>10 DEF vars
<1> QED BY <1>1, <1>2, <1>3, <1>4, <1>5, <1>5r, <1>6, <1>7, <1>8, <1>10 DEF Next, Foreign

LEMMA PoolTypesStep ==
    ASSUME BaseInv, [Next]_vars
    PROVE  PoolTypes'
<1> USE DEF PoolTypes
<1>a. PoolTypes BY Types
<1>0. ASSUME UNCHANGED <<poolVars, sigVars>> PROVE PoolTypes' BY <1>0, <1>a
<1>1. ASSUME NEW t \in Sessions, Session(t) PROVE PoolTypes'
  BY <1>0, <1>1 DEF Session, Attach, OpenPort, Provide, ClosePort, Detach, CloseCtx, PostCtl, Returned
<1>2. ASSUME NEW c \in Calls, NEW p \in Ports, ExtReply(c, p) PROVE PoolTypes' BY <1>0, <1>2 DEF ExtReply
<1>3. CASE Bridge
  <2>1. CASE SigPoll
    <3>1. sigRing' \in Seq(Signalers) /\ UNCHANGED <<poolVars, sig>> BY <2>1, HeadTypes DEF SigPoll
    <3> QED BY <1>a, <3>1
  <2>2. CASE CtlPoll \/ CloseWithdraws \/ CloseEnds \/ CtlDone \/ ReplyPoll \/ BridgeStops \/ BridgeFailsAll \/ BridgeDown
    BY <1>0, <2>2 DEF CtlPoll, CloseWithdraws, CloseEnds, CtlDone, ReplyPoll, BridgeStops, BridgeFailsAll, BridgeDown
  <2> QED BY <1>3, <2>1, <2>2 DEF Bridge
<1>4. ASSUME NEW c \in Calls, ExtCall(c) PROVE PoolTypes'
  <2>1. queue' = queue \/ queue' = Append(queue, c) BY <1>4, Issued DEF IssuedAs
  <2>2. c \in Messages BY DEF Messages
  <2>3. queue' \in Seq(Messages) BY <1>a, <2>1, <2>2
  <2> QED BY <1>a, <1>4, <2>3 DEF ExtCall
<1>5. ASSUME NEW c \in Calls, Abandon(c) \/ CallReturns(c) PROVE PoolTypes' BY <1>0, <1>5 DEF Abandon, CallReturns
<1>6. ASSUME NEW g \in Signalers, ExtSignal(g) PROVE PoolTypes'
  <2>1. PICK p \in Ports : /\ sig' = [sig EXCEPT ![g] = p] /\ UNCHANGED <<stopPool, wk>>
                           /\ \/ queue' = Append(queue, g) /\ UNCHANGED sigRing
                              \/ sigRing' = Append(sigRing, g) /\ UNCHANGED queue
    BY <1>6 DEF ExtSignal, IsOpen
  <2>2. g \in Messages BY DEF Messages
  <2>3. Append(queue, g) \in Seq(Messages) /\ Append(sigRing, g) \in Seq(Signalers) BY <1>a, <2>2
  <2>4. queue' \in Seq(Messages) /\ sigRing' \in Seq(Signalers) BY <1>a, <2>1, <2>3
  <2> QED BY <1>a, <2>1, <2>4
<1>7. ASSUME NEW w \in Workers, Worker(w) PROVE PoolTypes'
  <2>1. CASE TakeMessage(w)
    <3>1. /\ Head(queue) \in Messages /\ queue' \in Seq(Messages)
          /\ wk' = [wk EXCEPT ![w] = [at |-> "taken", msg |-> Head(queue)]] /\ UNCHANGED <<sig, sigRing, stopPool>>
      BY <2>1, HeadTypes DEF TakeMessage
    <3> QED BY <1>a, <3>1
  <2>2. CASE SeeClosed(w) \/ StartInvoke(w) \/ EndInvoke(w)
    <3>1. /\ \/ wk' = [wk EXCEPT ![w] = [at |-> "idle", msg |-> Nobody]]
             \/ \E a \in {"open", "invoking"} : wk' = [wk EXCEPT ![w].at = a] /\ wk[w].at # "idle"
          /\ UNCHANGED <<queue, stopPool, sigVars>>
      <4>1. CASE SeeClosed(w) BY <4>1 DEF SeeClosed, Drop
      <4>2. CASE StartInvoke(w) BY <4>2 DEF StartInvoke, Drop
      <4>3. CASE EndInvoke(w) BY <4>3 DEF EndInvoke, Drop
      <4> QED BY <2>2, <4>1, <4>2, <4>3
    <3> QED BY <1>a, <3>1
  <2> QED BY <1>7, <2>1, <2>2 DEF Worker
<1>8. CASE StopBegins BY <1>0, <1>8 DEF StopBegins
<1>9. CASE StopPool \/ StopEnds
  <2>1. <<>> \in Seq(Messages) /\ <<>> \in Seq(Signalers) OBVIOUS
  <2> QED BY <1>a, <1>9, <2>1 DEF StopPool, StopEnds
<1>10. CASE UNCHANGED vars BY <1>0, <1>10 DEF vars
<1> QED BY <1>1, <1>2, <1>3, <1>4, <1>5, <1>6, <1>7, <1>8, <1>9, <1>10 DEF Next, Foreign

LEMMA RingTypesStep ==
    ASSUME BaseInv, [Next]_vars
    PROVE  RingTypes'
<1> USE DEF RingTypes
<1>a. RingTypes BY Types
<1>0. ASSUME UNCHANGED <<replies, ctl>> PROVE RingTypes' BY <1>0, <1>a
<1>1. ASSUME NEW t \in Sessions, Session(t) PROVE RingTypes'
  <2>1. CASE PostCtl(t)
    <3>1. (ctl' = ctl \/ ctl' = Append(ctl, t)) /\ replies' = replies BY <2>1 DEF PostCtl
    <3> QED BY <1>a, <3>1
  <2>2. CASE Attach(t) \/ OpenPort(t) \/ Provide(t) \/ ClosePort(t) \/ Detach(t) \/ CloseCtx(t) \/ Returned(t)
    BY <1>0, <2>2 DEF Attach, OpenPort, Provide, ClosePort, Detach, CloseCtx, Returned
  <2> QED BY <1>1, <2>1, <2>2 DEF Session
<1>2. ASSUME NEW c \in Calls, NEW p \in Ports, ExtReply(c, p) PROVE RingTypes'
  <2>1. replies' = Append(replies, [call |-> c, port |-> p]) /\ ctl' = ctl BY <1>2 DEF ExtReply
  <2>2. [call |-> c, port |-> p] \in Replies BY DEF Replies
  <2> QED BY <1>a, <2>1, <2>2
<1>3. CASE Bridge
  <2>1. CASE CtlPoll
    <3>1. ctl' \in Seq(Sessions) /\ replies' = replies BY <2>1, HeadTypes DEF CtlPoll
    <3> QED BY <1>a, <3>1
  <2>2. CASE ReplyPoll
    <3>1. replies' \in Seq(Replies) /\ ctl' = ctl BY <2>2, HeadTypes DEF ReplyPoll
    <3> QED BY <1>a, <3>1
  <2>3. CASE CloseWithdraws \/ CloseEnds \/ CtlDone \/ SigPoll \/ BridgeStops \/ BridgeFailsAll \/ BridgeDown
    BY <1>0, <2>3 DEF CloseWithdraws, CloseEnds, CtlDone, SigPoll, BridgeStops, BridgeFailsAll, BridgeDown
  <2> QED BY <1>3, <2>1, <2>2, <2>3 DEF Bridge
<1>4. ASSUME NEW c \in Calls, ExtCall(c) \/ Abandon(c) \/ CallReturns(c) PROVE RingTypes' BY <1>0, <1>4 DEF ExtCall, Abandon, CallReturns
<1>6. ASSUME NEW g \in Signalers, ExtSignal(g) PROVE RingTypes' BY <1>0, <1>6 DEF ExtSignal
<1>7. ASSUME NEW w \in Workers, Worker(w) PROVE RingTypes'
  BY <1>0, <1>7 DEF Worker, TakeMessage, SeeClosed, StartInvoke, EndInvoke
<1>8. CASE StopBegins \/ StopPool BY <1>0, <1>8 DEF StopBegins, StopPool
<1>9. CASE StopEnds
  <2>1. <<>> \in Seq(Sessions) /\ <<>> \in Seq(Replies) OBVIOUS
  <2> QED BY <1>a, <1>9, <2>1 DEF StopEnds
<1>10. CASE UNCHANGED vars BY <1>0, <1>10 DEF vars
<1> QED BY <1>1, <1>2, <1>3, <1>4, <1>6, <1>7, <1>8, <1>9, <1>10 DEF Next, Foreign

LEMMA BaseStep == BaseInv /\ [Next]_vars => BaseInv'
BY HostTypesStep, BridgeTypesStep, PortTypesStep, CallTypesStep, PoolTypesStep, RingTypesStep,
   SessionTypesStep DEF BaseInv

LEMMA BaseAlways == Spec => []BaseInv
BY BaseInit, BaseStep, PTL DEF Spec

-----------------------------------------------------------------------------
(* The parts of the inductive invariant (IInv, below): what the ports, the *)
(* requests, the messages and the control ring keep.                       *)

\* p was opened, be it open now or not.
Made(p) == p \in Ports /\ p[2] <= gen[p[1]]

\* How far the stop has come.
PhaseInv ==
    /\ running <=> host = "running"
    /\ host \in {"pools", "stopped"} => bridge = "down"
    /\ client # Nobody <=> bridge = "closing"

\* The port bridgeClose is in is open, but without names and requests.
ShutInv ==
    shutting # NoPort =>
        /\ bridge \in {"closing", "stopping"}
        /\ IsOpen(shutting) /\ shutting[1] \in scan
        /\ \A n \in Names : source[n] # shutting
        /\ \A c \in Waiting : call[c].port # shutting

PortInv == SourceIsOpen /\ NoWaitOnClosed /\ ShutInv

\* A request is answered once, by a reply the plugin gave to its invoke or by none; if it
\* was not invoked then, it is out of the workers' reach.
CallAt(c) ==
    /\ call[c].at = "new" => call[c].port = NoPort
    /\ call[c].at \in {"new", "waiting"} => call[c].by = NoPort
    /\ call[c].by # NoPort => call[c].by = call[c].port /\ c \in invoked
    /\ call[c].at \in {"ended", "done"} /\ c \notin invoked => call[c].st # "queued"

CallInv ==
    /\ \A c \in Calls : CallAt(c)
    /\ \A i \in 1 .. Len(replies) : replies[i].call \in invoked

\* A request whose extCall is not done was sent to a port.
FramedMade == \A c \in Framed : Made(call[c].port)

\* What is on its way to a worker or to the bridge has a port.
CarryInv ==
    /\ \A i \in 1 .. Len(queue) : Made(PortOf(queue[i]))
    /\ \A i \in 1 .. Len(sigRing) : Made(PortOf(sigRing[i]))
    /\ \A w \in Workers : wk[w].msg # Nobody => Made(PortOf(wk[w].msg))
    /\ FramedMade

\* A control message is in one place, and who posted it waits.
CtlInv ==
    /\ \A i \in 1 .. Len(ctl) : io[ctl[i]] = "wait" /\ ctl[i] # client
    /\ \A i, j \in 1 .. Len(ctl) : ctl[i] = ctl[j] => i = j
    /\ client \in Sessions => io[client] = "wait"

LEMMA PhaseStep ==
    ASSUME BaseInv, PhaseInv, [Next]_vars
    PROVE  PhaseInv'
<1> USE DEF PhaseInv
<1>0. ASSUME UNCHANGED <<hostVars, bridge, client>> PROVE PhaseInv' BY <1>0
<1>1. ASSUME NEW t \in Sessions, Session(t) PROVE PhaseInv'
  BY <1>0, <1>1 DEF Session, Attach, OpenPort, Provide, ClosePort, Detach, CloseCtx, PostCtl, Returned
<1>2. ASSUME NEW c \in Calls, NEW p \in Ports, ExtReply(c, p) PROVE PhaseInv' BY <1>0, <1>2 DEF ExtReply
<1>3. CASE Bridge
  <2>1. CASE CtlPoll
    <3>1. Head(ctl) \in Sessions /\ bridge \in {"poll", "draining"} /\ UNCHANGED hostVars
      BY <2>1, HeadTypes DEF CtlPoll
    <3>2. \/ UNCHANGED bridgeVars
          \/ bridge' = "closing" /\ client' = Head(ctl)
      BY <2>1 DEF CtlPoll, RunProvide, RunClose
    <3> QED BY <3>1, <3>2
  <2>2. CASE CtlDone
    <3>1. resume \in {"poll", "draining"} BY Types DEF BridgeTypes
    <3> QED BY <2>2, <3>1 DEF CtlDone
  <2>3. CASE BridgeStops \/ BridgeFailsAll \/ BridgeDown
    <3>1. \/ host = "stopping" /\ bridge = "poll" /\ bridge' = "stopping"
          \/ bridge = "stopping" /\ bridge' = "draining"
          \/ bridge = "draining" /\ bridge' = "down"
      BY <2>3 DEF BridgeStops, BridgeFailsAll, BridgeDown
    <3>2. UNCHANGED <<hostVars, client>> BY <2>3 DEF BridgeStops, BridgeFailsAll, BridgeDown
    <3> QED BY <3>1, <3>2
  <2>4. CASE CloseWithdraws \/ CloseEnds \/ ReplyPoll \/ SigPoll
    BY <1>0, <2>4 DEF CloseWithdraws, CloseEnds, ReplyPoll, SigPoll
  <2> QED BY <1>3, <2>1, <2>2, <2>3, <2>4 DEF Bridge
<1>4. ASSUME NEW c \in Calls, ExtCall(c) \/ Abandon(c) \/ CallReturns(c) PROVE PhaseInv' BY <1>0, <1>4 DEF ExtCall, Abandon, CallReturns
<1>6. ASSUME NEW g \in Signalers, ExtSignal(g) PROVE PhaseInv' BY <1>0, <1>6 DEF ExtSignal
<1>7. ASSUME NEW w \in Workers, Worker(w) PROVE PhaseInv'
  BY <1>0, <1>7 DEF Worker, TakeMessage, SeeClosed, StartInvoke, EndInvoke
<1>8. CASE StopBegins \/ StopPool \/ StopEnds BY <1>8 DEF StopBegins, StopPool, StopEnds
<1>10. CASE UNCHANGED vars BY <1>0, <1>10 DEF vars
<1> QED BY <1>1, <1>2, <1>3, <1>4, <1>6, <1>7, <1>8, <1>10 DEF Next, Foreign

-----------------------------------------------------------------------------
(* Opening and closing.                                                    *)

Opens(t, s) ==
    LET p == <<s, gen[s] + 1>> IN
    /\ s \in Slots /\ ~open[s] /\ p \in Ports /\ stage[t] = "open"
    /\ gen' = [gen EXCEPT ![s] = @ + 1] /\ open' = [open EXCEPT ![s] = TRUE]
    /\ refs' = [refs EXCEPT ![p] = 1] /\ mine' = [mine EXCEPT ![t] = p]
    /\ left' = [left EXCEPT ![t] = Names] /\ stage' = [stage EXCEPT ![t] = "provide"]
    /\ UNCHANGED <<hostVars, bridgeVars, closed, source, callVars, poolVars, sigVars,
                   replies, ctl, io, req, rc, holder, gPort>>

NoSlot(t) ==
    /\ stage[t] = "open"
    /\ stage' = [stage EXCEPT ![t] = "idle"] /\ holder' = Nobody
    /\ UNCHANGED <<hostVars, bridgeVars, portVars, source, callVars, poolVars, sigVars,
                   replies, ctl, io, req, rc, mine, left, gPort>>

LEMMA OpenCases ==
    ASSUME NEW t, OpenPort(t)
    PROVE  (\E s : Opens(t, s)) \/ NoSlot(t)
<1>1. CASE \E x \in Slots : ~open[x]
  <2> PICK s : s = Least({x \in Slots : ~open[x]}) OBVIOUS
  <2>1. s \in {x \in Slots : ~open[x]} BY <1>1, LeastSlot
  <2>2. Opens(t, s) BY <1>1, <2>1 DEF OpenPort, Opens
  <2> QED BY <2>2
<1>2. CASE ~ \E x \in Slots : ~open[x] BY <1>2 DEF OpenPort, NoSlot
<1> QED BY <1>1, <1>2

LEMMA PortPair ==
    ASSUME NEW p \in Ports
    PROVE  p = <<p[1], p[2]>> /\ p[1] \in Slots /\ p[2] \in 1 .. MaxGen
BY DEF Ports

LEMMA OpenIsMade ==
    ASSUME NEW p, IsOpen(p)
    PROVE  Made(p) /\ p \in Ports
<1>1. p \in Ports /\ gen[p[1]] = p[2] BY DEF IsOpen
<1>2. p[2] \in Nat BY <1>1, PortPair
<1> QED BY <1>1, <1>2 DEF Made

LEMMA OpensPort ==
    ASSUME BaseInv, NEW t, NEW s, Opens(t, s), NEW n, n = <<s, gen[s] + 1>>
    PROVE  /\ \A p : Made(p) => Made(p)' /\ p # n
           /\ \A p : IsOpen(p) => IsOpen(p)'
           /\ \A p : IsOpen(p)' => IsOpen(p) \/ p = n
           /\ IsOpen(n)' /\ Made(n)'
<1>a. gen \in [Slots -> 0 .. MaxGen] /\ open \in [Slots -> BOOLEAN] BY Types DEF PortTypes
<1>b. /\ s \in Slots /\ ~open[s] /\ <<s, gen[s] + 1>> \in Ports
      /\ gen' = [gen EXCEPT ![s] = @ + 1] /\ open' = [open EXCEPT ![s] = TRUE]
  BY DEF Opens
<1>c. gen'[s] = gen[s] + 1 /\ gen[s] \in Nat /\ open'[s] BY <1>a, <1>b
<1>1. ASSUME NEW p, Made(p) PROVE Made(p)' /\ p # n
  <2>1. p \in Ports /\ p[2] <= gen[p[1]] /\ p[1] \in Slots /\ p[2] \in Nat BY <1>1, PortPair DEF Made
  <2>2. CASE p[1] = s BY <1>c, <2>1, <2>2 DEF Made
  <2>3. CASE p[1] # s
    <3>1. gen'[p[1]] = gen[p[1]] BY <1>a, <1>b, <2>1, <2>3
    <3> QED BY <2>1, <2>3, <3>1 DEF Made
  <2> QED BY <2>2, <2>3
<1>2. ASSUME NEW p, IsOpen(p) PROVE IsOpen(p)'
  <2>1. p \in Ports /\ p[1] \in Slots /\ open[p[1]] BY <1>2, PortPair DEF IsOpen
  <2>2. p[1] # s BY <1>b, <2>1
  <2> QED BY <1>2, <1>a, <1>b, <2>1, <2>2 DEF IsOpen
<1>3. ASSUME NEW p, IsOpen(p)' PROVE IsOpen(p) \/ p = n
  <2>1. p \in Ports /\ p[1] \in Slots /\ open'[p[1]] /\ gen'[p[1]] = p[2] /\ p = <<p[1], p[2]>>
    BY <1>3, PortPair DEF IsOpen
  <2>2. CASE p[1] = s BY <1>c, <2>1, <2>2
  <2>3. CASE p[1] # s BY <1>a, <1>b, <2>1, <2>3 DEF IsOpen
  <2> QED BY <2>2, <2>3
<1>4. IsOpen(n)' /\ Made(n)' BY <1>b, <1>c DEF IsOpen, Made
<1> QED BY <1>1, <1>2, <1>3, <1>4

LEMMA EndsPort ==
    ASSUME BaseInv, ShutInv, CloseEnds
    PROVE  \A p : IsOpen(p)' <=> IsOpen(p) /\ p # shutting
<1>a. gen \in [Slots -> 0 .. MaxGen] /\ open \in [Slots -> BOOLEAN] BY Types DEF PortTypes
<1>b. /\ IsOpen(shutting) /\ shutting \in Ports /\ open' = [open EXCEPT ![shutting[1]] = FALSE]
      /\ gen' = gen
  BY DEF CloseEnds, ShutInv, IsOpen
<1>c. shutting = <<shutting[1], gen[shutting[1]]>> /\ shutting[1] \in Slots BY <1>b, PortPair DEF IsOpen
<1>1. ASSUME NEW p \in Ports PROVE IsOpen(p)' <=> IsOpen(p) /\ p # shutting
  <2>1. p[1] \in Slots /\ p = <<p[1], p[2]>> BY PortPair
  <2>2. CASE p[1] = shutting[1]
    <3>1. ~open'[p[1]] BY <1>a, <1>b, <1>c, <2>2
    <3>2. ~IsOpen(p)' BY <3>1 DEF IsOpen
    <3>3. IsOpen(p) => p = shutting BY <1>c, <2>1, <2>2 DEF IsOpen
    <3> QED BY <3>2, <3>3
  <2>3. CASE p[1] # shutting[1]
    <3>1. open'[p[1]] = open[p[1]] BY <1>a, <1>b, <2>1, <2>3
    <3> QED BY <1>b, <2>3, <3>1 DEF IsOpen
  <2> QED BY <2>2, <2>3
<1> QED BY <1>1 DEF IsOpen

\* Which steps open or close a port.
LEMMA OpenSteps ==
    ASSUME [Next]_vars
    PROVE  \/ UNCHANGED <<gen, open>>
           \/ \E t \in Sessions, s \in Slots : Opens(t, s)
           \/ CloseEnds
<1> DEFINE G == \/ UNCHANGED <<gen, open>>
                \/ \E t \in Sessions, s \in Slots : Opens(t, s)
                \/ CloseEnds
<1>1. ASSUME NEW t \in Sessions, Session(t) PROVE G
  <2>1. CASE OpenPort(t) BY <2>1, OpenCases DEF Opens, NoSlot
  <2>2. CASE Attach(t) \/ Provide(t) \/ ClosePort(t) \/ Detach(t) \/ CloseCtx(t) \/ PostCtl(t) \/ Returned(t)
    BY <2>2 DEF Attach, Provide, ClosePort, Detach, CloseCtx, PostCtl, Returned
  <2> QED BY <1>1, <2>1, <2>2 DEF Session
<1>2. ASSUME NEW c \in Calls, NEW p \in Ports, ExtReply(c, p) PROVE G BY <1>2 DEF ExtReply
<1>3. CASE Bridge
  BY <1>3 DEF Bridge, CtlPoll, CtlDone, CloseWithdraws, ReplyPoll, SigPoll, BridgeStops, BridgeFailsAll, BridgeDown
<1>4. ASSUME NEW c \in Calls, ExtCall(c) \/ Abandon(c) \/ CallReturns(c) PROVE G BY <1>4 DEF ExtCall, Abandon, CallReturns
<1>6. ASSUME NEW g \in Signalers, ExtSignal(g) PROVE G BY <1>6 DEF ExtSignal
<1>7. ASSUME NEW w \in Workers, Worker(w) PROVE G
  BY <1>7 DEF Worker, TakeMessage, SeeClosed, StartInvoke, EndInvoke
<1>8. CASE StopBegins \/ StopPool \/ StopEnds BY <1>8 DEF StopBegins, StopPool, StopEnds
<1>10. CASE UNCHANGED vars BY <1>10 DEF vars
<1> QED BY <1>1, <1>2, <1>3, <1>4, <1>6, <1>7, <1>8, <1>10 DEF Next, Foreign

LEMMA MadeStep ==
    ASSUME BaseInv, [Next]_vars, NEW p, Made(p)
    PROVE  Made(p)'
<1>1. CASE UNCHANGED <<gen, open>> BY <1>1 DEF Made
<1>2. ASSUME NEW t \in Sessions, NEW s \in Slots, Opens(t, s) PROVE Made(p)' BY <1>2, OpensPort
<1>3. CASE CloseEnds BY <1>3 DEF CloseEnds, Made
<1> QED BY <1>1, <1>2, <1>3, OpenSteps

-----------------------------------------------------------------------------
(* PortInv: a port that is not open has no name and no waiting request.    *)

\* No request waits that did not, and none changes its port.
WaitsLess ==
    \A c \in Calls : call'[c].at = "waiting" => call[c].at = "waiting" /\ call'[c].port = call[c].port

LEMMA EndCallsLess ==
    ASSUME BaseInv, NEW F, F \subseteq Calls, NEW a \in {"ended", "done"},
           NEW p, EndCalls(F, a, p)
    PROVE  WaitsLess
<1>1. Ended(F, a, p) BY EndCallsFields, Types
<1>2. a # "waiting" OBVIOUS
<1> QED BY <1>1, <1>2 DEF WaitsLess, Ended

LEMMA PortSame ==
    ASSUME BaseInv, PortInv, UNCHANGED <<gen, open, source, shutting, scan>>, WaitsLess,
           bridge' = bridge \/ shutting = NoPort
    PROVE  PortInv'
<1>1. \A p : IsOpen(p)' <=> IsOpen(p) BY DEF IsOpen
<1>2. SourceIsOpen' BY <1>1 DEF PortInv, SourceIsOpen
<1>3. NoWaitOnClosed' BY <1>1 DEF PortInv, NoWaitOnClosed, WaitsLess, Waiting
<1>4. ShutInv'
  <2>1. CASE shutting = NoPort BY <2>1 DEF ShutInv
  <2>2. CASE shutting # NoPort /\ bridge' = bridge
    <3>1. ASSUME NEW c \in Waiting' PROVE call'[c].port # shutting
      BY <2>2, <3>1 DEF PortInv, ShutInv, WaitsLess, Waiting
    <3> QED BY <1>1, <2>2, <3>1 DEF PortInv, ShutInv
  <2> QED BY <2>1, <2>2
<1> QED BY <1>2, <1>3, <1>4 DEF PortInv

LEMMA PortCtl ==
    ASSUME BaseInv, PortInv, CtlPoll
    PROVE  PortInv'
<1>1. bridge \in {"poll", "draining"} /\ UNCHANGED <<gen, open, call>> BY DEF CtlPoll
<1>2. shutting = NoPort BY <1>1 DEF PortInv, ShutInv
<1>3. \A p : IsOpen(p)' <=> IsOpen(p) BY <1>1 DEF IsOpen
<1> PICK r : r = req[Head(ctl)] OBVIOUS
<1>4. RunProvide(r) \/ RunClose(r) BY DEF CtlPoll
<1>5. /\ shutting' = shutting
      /\ \/ source' = source
         \/ source' = [source EXCEPT ![r.name] = r.port] /\ IsOpen(r.port)
  <2>1. CASE RunProvide(r)
    <3>1. r.op # "ctx" /\ (Stale(r) <=> ~IsOpen(r.port)) BY <2>1 DEF RunProvide, Stale
    <3> QED BY <2>1, <3>1 DEF RunProvide
  <2>2. CASE RunClose(r) BY <2>2 DEF RunClose
  <2> QED BY <1>4, <2>1, <2>2
<1>6. SourceIsOpen'
  <2>1. ASSUME NEW n \in Names, source'[n] # NoPort PROVE IsOpen(source'[n])
    <3>1. source'[n] = source[n] \/ (source'[n] = r.port /\ IsOpen(r.port))
      BY <1>5, Types DEF SourceTypes
    <3> QED BY <2>1, <3>1 DEF PortInv, SourceIsOpen
  <2>2. ASSUME NEW n \in Names, source'[n] # NoPort PROVE IsOpen(source[n])'
    <3> PICK p : p = source'[n] OBVIOUS
    <3>1. IsOpen(p) BY <2>1, <2>2
    <3>2. IsOpen(p)' BY <1>3, <3>1
    <3> QED BY <3>2 DEF IsOpen
  <2> QED BY <2>2 DEF SourceIsOpen
<1>7. NoWaitOnClosed' BY <1>1, <1>3 DEF PortInv, NoWaitOnClosed, Waiting
<1>8. ShutInv' BY <1>2, <1>5 DEF ShutInv
<1> QED BY <1>6, <1>7, <1>8 DEF PortInv

LEMMA PortWithdraws ==
    ASSUME BaseInv, PortInv, CloseWithdraws
    PROVE  PortInv'
<1> PICK s : s = Least(scan) OBVIOUS
<1> PICK p : p = <<s, gen[s]>> OBVIOUS
<1> PICK F : F = {c \in Waiting : call[c].port = p} OBVIOUS
<1>1. s \in scan /\ s \in Slots /\ bridge \in {"closing", "stopping"} /\ shutting = NoPort
      /\ UNCHANGED <<gen, open, bridge>>
  BY LeastSlot, Types DEF CloseWithdraws, BridgeTypes
<1>2. \A q : IsOpen(q)' <=> IsOpen(q) BY <1>1 DEF IsOpen
<1>3. CASE open[s]
  <2>1. /\ shutting' = p /\ scan' = scan /\ EndCalls(F, "ended", NoPort)
        /\ source' = [n \in Names |-> IF source[n] = p THEN NoPort ELSE source[n]]
    BY <1>3 DEF CloseWithdraws
  <2>2. p \in Ports /\ IsOpen(p) BY <1>1, <1>3, Types DEF PortTypes, IsOpen
  <2>3. SourceIsOpen' BY <1>2, <2>1 DEF PortInv, SourceIsOpen
  <2>4. F \subseteq Calls BY WaitingCalls
  <2>5. WaitsLess BY <2>1, <2>4, EndCallsLess
  <2>6. NoWaitOnClosed' BY <1>2, <2>5 DEF PortInv, NoWaitOnClosed, WaitsLess, Waiting
  <2>7. ASSUME NEW c \in Waiting' PROVE call'[c].port # p
    <3>1. c \in Calls /\ call'[c].at = "waiting" BY DEF Waiting
    <3>2. c \in Waiting /\ call'[c].port = call[c].port BY <2>5, <3>1 DEF WaitsLess, Waiting
    <3>a. Ended(F, "ended", NoPort) BY <2>1, <2>4, EndCallsFields, Types
    <3>3. c \notin F BY <3>1, <3>a DEF Ended
    <3> QED BY <3>2, <3>3
  <2>8. \A n \in Names : source'[n] # p BY <2>1, <2>2
  <2>9. IsOpen(p)' /\ p[1] = s BY <1>2, <2>2
  <2>10. ShutInv' BY <1>1, <2>1, <2>7, <2>8, <2>9 DEF ShutInv
  <2> QED BY <2>3, <2>6, <2>10 DEF PortInv
<1>4. CASE ~open[s]
  <2>1. UNCHANGED <<shutting, source, call>> BY <1>4 DEF CloseWithdraws
  <2>2. SourceIsOpen' BY <1>2, <2>1 DEF PortInv, SourceIsOpen
  <2>3. NoWaitOnClosed' BY <1>2, <2>1 DEF PortInv, NoWaitOnClosed, Waiting
  <2> QED BY <1>1, <2>1, <2>2, <2>3 DEF PortInv, ShutInv
<1> QED BY <1>3, <1>4

LEMMA PortEnds ==
    ASSUME BaseInv, PortInv, CloseEnds
    PROVE  PortInv'
<1>1. UNCHANGED <<source, call>> /\ shutting' = NoPort /\ shutting # NoPort BY DEF CloseEnds
<1>2. \A p : IsOpen(p)' <=> IsOpen(p) /\ p # shutting BY EndsPort DEF PortInv
<1>3. /\ \A n \in Names : source[n] # shutting
      /\ \A c \in Waiting : call[c].port # shutting
  BY <1>1 DEF PortInv, ShutInv
<1>4. SourceIsOpen' BY <1>1, <1>2, <1>3 DEF PortInv, SourceIsOpen
<1>5. NoWaitOnClosed' BY <1>1, <1>2, <1>3 DEF PortInv, NoWaitOnClosed, Waiting
<1> QED BY <1>1, <1>4, <1>5 DEF PortInv, ShutInv

LEMMA PortOpens ==
    ASSUME BaseInv, PortInv, NEW t, NEW s, Opens(t, s)
    PROVE  PortInv'
<1> PICK n : n = <<s, gen[s] + 1>> OBVIOUS
<1>1. UNCHANGED <<source, call, bridge, scan, shutting>> BY DEF Opens
<1>2. \A p : IsOpen(p) => IsOpen(p)' BY OpensPort
<1>3. SourceIsOpen' BY <1>1, <1>2 DEF PortInv, SourceIsOpen
<1>4. NoWaitOnClosed' BY <1>1, <1>2 DEF PortInv, NoWaitOnClosed, Waiting
<1>5. ShutInv' BY <1>1, <1>2 DEF PortInv, ShutInv, Waiting
<1> QED BY <1>3, <1>4, <1>5 DEF PortInv

LEMMA PortCall ==
    ASSUME BaseInv, PortInv, NEW c \in Calls, ExtCall(c)
    PROVE  PortInv'
<1>1. bridge = "poll" /\ UNCHANGED <<gen, open, source, shutting>> BY DEF ExtCall
<1>2. shutting = NoPort BY <1>1 DEF PortInv, ShutInv
<1>3. \A p : IsOpen(p)' <=> IsOpen(p) BY <1>1 DEF IsOpen
<1>4. SourceIsOpen' BY <1>1, <1>3 DEF PortInv, SourceIsOpen
<1>i. PICK p \in Ports \cup {NoPort}, a \in {"waiting", "done"}, s \in {"none", "queued"} :
         IssuedAs(c, p, a, s)
  BY Issued
<1>5. /\ call' = [call EXCEPT ![c] = [at |-> a, port |-> p, st |-> s, by |-> NoPort]]
      /\ a = "waiting" => p # NoPort
      /\ \E n \in Names : p = source[n]
  BY <1>i DEF IssuedAs
<1>6. ASSUME NEW d \in Waiting' PROVE IsOpen(call'[d].port)
  <2>1. d \in Calls /\ call'[d].at = "waiting" BY DEF Waiting
  <2>2. CASE d # c
    <3>1. call'[d] = call[d] BY <1>5, <2>1, <2>2
    <3>2. d \in Waiting BY <2>1, <3>1 DEF Waiting
    <3> QED BY <3>1, <3>2 DEF PortInv, NoWaitOnClosed
  <2>3. CASE d = c
    <3>1. call'[c] = [at |-> a, port |-> p, st |-> s, by |-> NoPort]
      BY <1>5, Types DEF CallTypes
    <3>2. a = "waiting" /\ call'[c].port = p BY <2>1, <2>3, <3>1
    <3>3. IsOpen(p) BY <1>5, <3>2 DEF PortInv, SourceIsOpen
    <3> QED BY <2>3, <3>2, <3>3
  <2> QED BY <2>2, <2>3
<1>7. NoWaitOnClosed'
  <2>1. ASSUME NEW d \in Waiting' PROVE IsOpen(call[d].port)'
    <3> PICK q : q = call'[d].port OBVIOUS
    <3>1. IsOpen(q)' BY <1>3, <1>6
    <3> QED BY <3>1 DEF IsOpen
  <2> QED BY <2>1 DEF NoWaitOnClosed
<1> QED BY <1>1, <1>2, <1>4, <1>7 DEF PortInv, ShutInv

\* What a worker does with a request: its state, nothing else.
LEMMA StartCases ==
    ASSUME BaseInv, NEW w \in Workers, StartInvoke(w), NEW m, m = wk[w].msg
    PROVE  /\ m \in Messages /\ wk[w].at = "open"
           /\ \/ /\ m \in Calls /\ call[m].st = "queued" /\ invoked' = invoked \cup {m}
                 /\ call' = [call EXCEPT ![m].st = "running"]
                 /\ wk' = [wk EXCEPT ![w].at = "invoking"] /\ UNCHANGED refs
              \/ /\ m \notin Calls /\ UNCHANGED <<invoked, call>>
                 /\ wk' = [wk EXCEPT ![w].at = "invoking"] /\ UNCHANGED refs
              \/ UNCHANGED <<invoked, call>> /\ Drop(w, m)
<1>1. wk[w].at = "open" BY DEF StartInvoke
<1>2. m \in Messages BY <1>1, Types DEF PoolTypes
<1>3. CASE ~Starts(m) BY <1>1, <1>2, <1>3 DEF StartInvoke
<1>4. CASE Starts(m) /\ m \in Calls BY <1>1, <1>2, <1>4 DEF StartInvoke, Starts, Invoke
<1>5. CASE Starts(m) /\ m \notin Calls BY <1>1, <1>2, <1>5 DEF StartInvoke, Invoke
<1> QED BY <1>3, <1>4, <1>5

\* The fields of a request that a worker starts.
LEMMA StartFields ==
    ASSUME BaseInv, NEW m \in Calls, call' = [call EXCEPT ![m].st = "running"], NEW c \in Calls
    PROVE  /\ call'[c].at = call[c].at /\ call'[c].port = call[c].port /\ call'[c].by = call[c].by
           /\ call'[c].st = IF c = m THEN "running" ELSE call[c].st
<1>1. call \in [Calls -> CallRecord] BY Types DEF CallTypes
<1>2. CASE c = m
  <2>1. call[c] \in CallRecord /\ call'[c] = [call[c] EXCEPT !.st = "running"] BY <1>1, <1>2
  <2> QED BY <1>2, <2>1 DEF CallRecord
<1>3. CASE c # m BY <1>1, <1>3
<1> QED BY <1>2, <1>3

LEMMA PortStep ==
    ASSUME BaseInv, PhaseInv, PortInv, [Next]_vars
    PROVE  PortInv'
<1>0. ASSUME UNCHANGED <<gen, open, source, shutting, scan, bridge, call>> PROVE PortInv'
  BY <1>0, PortSame DEF WaitsLess
<1>1. ASSUME NEW t \in Sessions, Session(t) PROVE PortInv'
  <2>1. CASE OpenPort(t)
    <3>1. ASSUME NoSlot(t) PROVE PortInv' BY <1>0, <3>1 DEF NoSlot
    <3> QED BY <2>1, <3>1, OpenCases, PortOpens
  <2>2. CASE Attach(t) \/ Provide(t) \/ ClosePort(t) \/ Detach(t) \/ CloseCtx(t) \/ PostCtl(t) \/ Returned(t)
    BY <1>0, <2>2 DEF Attach, Provide, ClosePort, Detach, CloseCtx, PostCtl, Returned
  <2> QED BY <1>1, <2>1, <2>2 DEF Session
<1>2. ASSUME NEW c \in Calls, NEW p \in Ports, ExtReply(c, p) PROVE PortInv' BY <1>0, <1>2 DEF ExtReply
<1>3. CASE Bridge
  <2>1. CASE ReplyPoll
    <3>1. UNCHANGED <<gen, open, source, shutting, scan, bridge>> BY <2>1 DEF ReplyPoll
    <3> PICK r : r = Head(replies) OBVIOUS
    <3>2. r \in Replies BY <2>1, HeadTypes DEF ReplyPoll
    <3>3. {r.call} \subseteq Calls /\ r.port \in Ports BY <3>2 DEF Replies
    <3>4. EndCalls({r.call}, "ended", r.port) \/ UNCHANGED call BY <2>1 DEF ReplyPoll
    <3>5. UNCHANGED call => WaitsLess BY DEF WaitsLess
    <3> QED BY <3>1, <3>3, <3>4, <3>5, EndCallsLess, PortSame
  <2>2. CASE BridgeFailsAll
    <3>1. UNCHANGED <<gen, open, source, shutting, scan>> /\ scan = {} /\ EndCalls(Waiting, "ended", NoPort)
      BY <2>2 DEF BridgeFailsAll
    <3>2. shutting = NoPort BY <3>1 DEF PortInv, ShutInv
    <3> QED BY <3>1, <3>2, EndCallsLess, WaitingCalls, PortSame
  <2>3. CASE CtlDone \/ BridgeDown \/ BridgeStops
    <3>1. shutting = NoPort BY <2>3 DEF CtlDone, BridgeDown, BridgeStops, PortInv, ShutInv
    <3>2. UNCHANGED <<gen, open, source, shutting, call>> BY <2>3 DEF CtlDone, BridgeDown, BridgeStops
    <3>3. \A p : IsOpen(p)' <=> IsOpen(p) BY <3>2 DEF IsOpen
    <3>4. SourceIsOpen' BY <3>2, <3>3 DEF PortInv, SourceIsOpen
    <3>5. NoWaitOnClosed' BY <3>2, <3>3 DEF PortInv, NoWaitOnClosed, Waiting
    <3> QED BY <3>1, <3>2, <3>4, <3>5 DEF PortInv, ShutInv
  <2>4. CASE SigPoll BY <1>0, <2>4 DEF SigPoll
  <2> QED BY <1>3, <2>1, <2>2, <2>3, <2>4, PortCtl, PortWithdraws, PortEnds DEF Bridge
<1>4. ASSUME NEW c \in Calls, ExtCall(c) PROVE PortInv' BY <1>4, PortCall
<1>5. ASSUME NEW c \in Calls, Abandon(c) PROVE PortInv'
  <2>1. UNCHANGED <<gen, open, source, shutting, scan, bridge>> /\ EndCalls({c}, "done", NoPort)
    BY <1>5 DEF Abandon
  <2> QED BY <2>1, EndCallsLess, PortSame
<1>5r. ASSUME NEW c \in Calls, CallReturns(c) PROVE PortInv'
  <2>1. UNCHANGED <<gen, open, source, shutting, scan, bridge>> BY <1>5r DEF CallReturns
  <2>2. WaitsLess BY <1>5r, ReturnsFields, Types DEF WaitsLess
  <2> QED BY <2>1, <2>2, PortSame
<1>6. ASSUME NEW g \in Signalers, ExtSignal(g) PROVE PortInv' BY <1>0, <1>6 DEF ExtSignal
<1>7. ASSUME NEW w \in Workers, Worker(w) PROVE PortInv'
  <2>1. CASE StartInvoke(w)
    <3>1. UNCHANGED <<gen, open, source, shutting, scan, bridge>> BY <2>1 DEF StartInvoke
    <3>2. call' = call \/ \E m \in Calls : call' = [call EXCEPT ![m].st = "running"]
      BY <2>1, StartCases
    <3>3. WaitsLess BY <3>2, StartFields DEF WaitsLess
    <3> QED BY <3>1, <3>3, PortSame
  <2>2. CASE TakeMessage(w) \/ SeeClosed(w) \/ EndInvoke(w)
    BY <1>0, <2>2 DEF TakeMessage, SeeClosed, EndInvoke
  <2> QED BY <1>7, <2>1, <2>2 DEF Worker
<1>8. CASE StopBegins \/ StopPool \/ StopEnds BY <1>0, <1>8 DEF StopBegins, StopPool, StopEnds
<1>10. CASE UNCHANGED vars BY <1>0, <1>10 DEF vars
<1> QED BY <1>1, <1>2, <1>3, <1>4, <1>5, <1>5r, <1>6, <1>7, <1>8, <1>10 DEF Next, Foreign

-----------------------------------------------------------------------------
(* CallInv: how a request is answered, and that it is not started later.   *)

LEMMA CallSame ==
    ASSUME BaseInv, NEW c \in Calls, CallAt(c), call'[c] = call[c], invoked \subseteq invoked'
    PROVE  CallAt(c)'
BY DEF CallAt

LEMMA RepliesSame ==
    ASSUME CallInv, UNCHANGED replies, invoked \subseteq invoked'
    PROVE  (\A i \in 1 .. Len(replies) : replies[i].call \in invoked)'
BY DEF CallInv

\* The requests of F end without an answer, or with the one of a port they were sent to.
LEMMA CallEnds ==
    ASSUME BaseInv, CallInv, NEW F, F \subseteq Waiting, NEW a \in {"ended", "done"},
           NEW p \in Ports \cup {NoPort}, EndCalls(F, a, p), UNCHANGED invoked,
           p # NoPort => \A c \in F : call[c].port = p /\ c \in invoked
    PROVE  \A c \in Calls : CallAt(c)'
<1>1. F \subseteq Calls BY WaitingCalls
<1>1a. Ended(F, a, p) BY <1>1, EndCallsFields, Types
<1>2. ASSUME NEW c \in Calls \ F PROVE CallAt(c)'
  <2>1. call'[c] = call[c] BY <1>1a, <1>2 DEF Ended
  <2> QED BY <2>1, CallSame DEF CallInv
<1>3. ASSUME NEW c \in F PROVE CallAt(c)'
  <2>1. /\ call'[c].at = a /\ call'[c].by = p /\ call'[c].port = call[c].port
        /\ p = NoPort => call'[c].st # "queued"
    BY <1>1a, <1>3 DEF Ended
  <2>2. CASE p = NoPort BY <2>1, <2>2 DEF CallAt
  <2>3. CASE p # NoPort
    <3>1. call[c].port = p /\ c \in invoked' BY <1>3, <2>3
    <3> QED BY <2>1, <2>3, <3>1 DEF CallAt
  <2> QED BY <2>2, <2>3
<1> QED BY <1>2, <1>3

LEMMA CallReplyPoll ==
    ASSUME BaseInv, CallInv, ReplyPoll
    PROVE  CallInv'
<1> PICK r : r = Head(replies) OBVIOUS
<1>1. replies \in Seq(Replies) /\ replies # <<>> /\ replies' = Tail(replies) /\ UNCHANGED invoked
  BY Types DEF ReplyPoll, RingTypes
<1>2. r \in Replies /\ r = replies[1] /\ 1 \in 1 .. Len(replies) BY <1>1
<1>3. r.call \in invoked /\ r.call \in Calls /\ r.port \in Ports BY <1>2 DEF CallInv, Replies
<1>4. \A c \in Calls : CallAt(c)'
  <2>1. CASE r.call \in Waiting /\ FromSource(r)
    <3>1. EndCalls({r.call}, "ended", r.port) BY <2>1 DEF ReplyPoll
    <3>2. call[r.call].port = r.port BY <2>1 DEF FromSource
    <3> PICK F : F = {r.call} OBVIOUS
    <3>3. F \subseteq Waiting BY <2>1
    <3>4. EndCalls(F, "ended", r.port) BY <3>1
    <3>5. \A c \in F : call[c].port = r.port /\ c \in invoked BY <3>2, <1>3
    <3> QED BY <1>1, <1>3, <3>3, <3>4, <3>5, CallEnds
  <2>2. CASE ~(r.call \in Waiting /\ FromSource(r))
    <3>1. UNCHANGED call BY <2>2 DEF ReplyPoll
    <3> QED BY <1>1, <3>1, CallSame DEF CallInv
  <2> QED BY <2>1, <2>2
<1>5. ASSUME NEW i \in 1 .. Len(replies') PROVE replies'[i].call \in invoked'
  <2>1. i + 1 \in 1 .. Len(replies) /\ replies'[i] = replies[i + 1] BY <1>1
  <2> QED BY <1>1, <2>1 DEF CallInv
<1> QED BY <1>4, <1>5 DEF CallInv

LEMMA CallIssued ==
    ASSUME BaseInv, CallInv, NEW c \in Calls, ExtCall(c)
    PROVE  CallInv'
<1>i. PICK p \in Ports \cup {NoPort}, a \in {"waiting", "done"}, s \in {"none", "queued"} :
         IssuedAs(c, p, a, s)
  BY Issued
<1>1. /\ call' = [call EXCEPT ![c] = [at |-> a, port |-> p, st |-> s, by |-> NoPort]]
      /\ UNCHANGED invoked \/ Invoke({c})
      /\ a = "done" => s = "none"
  BY <1>i DEF IssuedAs
<1>2. invoked \subseteq invoked' /\ UNCHANGED replies BY <1>1 DEF Invoke, ExtCall
<1>3. ASSUME NEW d \in Calls, d # c PROVE CallAt(d)'
  <2>1. call'[d] = call[d] BY <1>1, <1>3
  <2> QED BY <1>2, <2>1, CallSame DEF CallInv
<1>4. CallAt(c)'
  <2>1. call'[c] = [at |-> a, port |-> p, st |-> s, by |-> NoPort] BY <1>1, Types DEF CallTypes
  <2>2. call'[c].at = a /\ call'[c].by = NoPort /\ call'[c].st = s BY <2>1
  <2> QED BY <1>1, <2>2 DEF CallAt
<1> QED BY <1>2, <1>3, <1>4, RepliesSame DEF CallInv

LEMMA CallStarts ==
    ASSUME BaseInv, CallInv, NEW w \in Workers, StartInvoke(w)
    PROVE  CallInv'
<1> PICK m : m = wk[w].msg OBVIOUS
<1>1. UNCHANGED replies BY DEF StartInvoke
<1>2. CASE m \in Calls /\ call[m].st = "queued" /\ invoked' = invoked \cup {m} /\
           call' = [call EXCEPT ![m].st = "running"]
  <2>1. ASSUME NEW c \in Calls PROVE CallAt(c)'
    <3>1. /\ call'[c].at = call[c].at /\ call'[c].port = call[c].port /\ call'[c].by = call[c].by
          /\ call'[c].st = IF c = m THEN "running" ELSE call[c].st
      BY <1>2, StartFields
    <3>2. CallAt(c) BY DEF CallInv
    <3> QED BY <1>2, <3>1, <3>2 DEF CallAt
  <2> QED BY <1>1, <1>2, <2>1, RepliesSame DEF CallInv
<1>3. CASE UNCHANGED call /\ invoked \subseteq invoked'
  BY <1>1, <1>3, CallSame, RepliesSame DEF CallInv
<1> QED BY <1>2, <1>3, StartCases

LEMMA CallReplied ==
    ASSUME BaseInv, CallInv, NEW c \in Calls, NEW p \in Ports, ExtReply(c, p)
    PROVE  CallInv'
<1>1. /\ c \in invoked /\ replies' = Append(replies, [call |-> c, port |-> p]) /\ UNCHANGED callVars
      /\ replies \in Seq(Replies)
  BY Types DEF ExtReply, Answers, RingTypes
<1>2. \A d \in Calls : CallAt(d)' BY <1>1, CallSame DEF CallInv
<1>3. ASSUME NEW i \in 1 .. Len(replies') PROVE replies'[i].call \in invoked'
  <2>1. CASE i = Len(replies) + 1
    <3>1. replies'[i] = [call |-> c, port |-> p] BY <1>1, <2>1
    <3> QED BY <1>1, <3>1
  <2>2. CASE i # Len(replies) + 1
    <3>1. i \in 1 .. Len(replies) /\ replies'[i] = replies[i] BY <1>1, <2>2
    <3> QED BY <1>1, <3>1 DEF CallInv
  <2> QED BY <2>1, <2>2
<1> QED BY <1>2, <1>3 DEF CallInv

LEMMA CallStep ==
    ASSUME BaseInv, CallInv, [Next]_vars
    PROVE  CallInv'
<1>0. ASSUME UNCHANGED <<call, replies>>, invoked \subseteq invoked' PROVE CallInv'
  BY <1>0, CallSame, RepliesSame DEF CallInv
<1>b. ASSUME NEW F, F \subseteq Waiting, NEW a \in {"ended", "done"},
             EndCalls(F, a, NoPort), UNCHANGED <<invoked, replies>>
      PROVE  CallInv'
  BY <1>b, CallEnds, RepliesSame DEF CallInv
<1>1. ASSUME NEW t \in Sessions, Session(t) PROVE CallInv'
  BY <1>0, <1>1 DEF Session, Attach, OpenPort, Provide, ClosePort, Detach, CloseCtx, PostCtl, Returned
<1>3. CASE Bridge
  <2>1. CASE CloseWithdraws
    <3> PICK F : F = {c \in Waiting : call[c].port = <<Least(scan), gen[Least(scan)]>>} OBVIOUS
    <3>1. F \subseteq Waiting OBVIOUS
    <3>2. UNCHANGED <<invoked, replies>> /\ (EndCalls(F, "ended", NoPort) \/ UNCHANGED call)
      BY <2>1 DEF CloseWithdraws
    <3> QED BY <1>0, <1>b, <3>1, <3>2
  <2>2. CASE BridgeFailsAll
    <3>1. UNCHANGED <<invoked, replies>> /\ EndCalls(Waiting, "ended", NoPort) BY <2>2 DEF BridgeFailsAll
    <3> QED BY <1>b, <3>1
  <2>3. CASE CtlPoll \/ CloseEnds \/ CtlDone \/ SigPoll \/ BridgeStops \/ BridgeDown
    <3>1. UNCHANGED <<call, replies>> /\ invoked \subseteq invoked'
      BY <2>3 DEF CtlPoll, CloseEnds, CtlDone, SigPoll, BridgeStops, BridgeDown, Invoke
    <3> QED BY <1>0, <3>1
  <2> QED BY <1>3, <2>1, <2>2, <2>3, CallReplyPoll DEF Bridge
<1>5. ASSUME NEW c \in Calls, Abandon(c) PROVE CallInv'
  <2>1. {c} \subseteq Waiting /\ UNCHANGED <<invoked, replies>> /\ EndCalls({c}, "done", NoPort)
    BY <1>5 DEF Abandon
  <2> QED BY <1>b, <2>1
<1>5r. ASSUME NEW c \in Calls, CallReturns(c) PROVE CallInv'
  <2>1. UNCHANGED <<invoked, replies>> BY <1>5r DEF CallReturns
  <2>2. \A d \in Calls \ {c} : CallAt(d)'
    <3>1. \A d \in Calls \ {c} : call'[d] = call[d] BY <1>5r, ReturnsFields, Types
    <3> QED BY <2>1, <3>1, CallSame DEF CallInv
  <2>3. CallAt(c)'
    <3>1. /\ call[c].at = "ended" /\ call'[c].at = "done" /\ call'[c].by = call[c].by
          /\ call'[c].port = call[c].port /\ call'[c].st = call[c].st
      BY <1>5r, ReturnsFields, Types
    <3>2. CallAt(c) BY DEF CallInv
    <3> QED BY <2>1, <3>1, <3>2 DEF CallAt
  <2> QED BY <2>1, <2>2, <2>3, RepliesSame DEF CallInv
<1>6. ASSUME NEW g \in Signalers, ExtSignal(g) PROVE CallInv' BY <1>0, <1>6 DEF ExtSignal
<1>7. ASSUME NEW w \in Workers, Worker(w) PROVE CallInv'
  <2>1. CASE TakeMessage(w) \/ SeeClosed(w) \/ EndInvoke(w)
    BY <1>0, <2>1 DEF TakeMessage, SeeClosed, EndInvoke
  <2> QED BY <1>7, <2>1, CallStarts DEF Worker
<1>8. CASE StopBegins \/ StopPool BY <1>0, <1>8 DEF StopBegins, StopPool
<1>9. CASE StopEnds
  <2>1. replies' = <<>> /\ UNCHANGED callVars BY <1>9 DEF StopEnds
  <2>2. \A c \in Calls : CallAt(c)' BY <2>1, CallSame DEF CallInv
  <2> QED BY <2>1, <2>2 DEF CallInv
<1>10. CASE UNCHANGED vars BY <1>0, <1>10 DEF vars
<1> QED BY <1>1, <1>3, <1>5, <1>5r, <1>6, <1>7, <1>8, <1>9, <1>10, CallReplied, CallIssued DEF Next, Foreign

\* A request that was answered before its invoke began stays so.
LEMMA AnsweredStep ==
    ASSUME BaseInv, CallInv, [Next]_vars
    PROVE  \A c \in Calls : call[c].at \in {"ended", "done"} /\ c \notin invoked => c \notin invoked'
<1> DEFINE G == \A c \in Calls : call[c].at \in {"ended", "done"} /\ c \notin invoked => c \notin invoked'
<1>0. ASSUME UNCHANGED invoked PROVE G BY <1>0
<1>1. ASSUME NEW t \in Sessions, Session(t) PROVE G
  BY <1>0, <1>1 DEF Session, Attach, OpenPort, Provide, ClosePort, Detach, CloseCtx, PostCtl, Returned
<1>2. ASSUME NEW c \in Calls, NEW p \in Ports, ExtReply(c, p) PROVE G BY <1>0, <1>2 DEF ExtReply
<1>3. CASE Bridge
  <2>1. CASE SigPoll
    <3>1. invoked' \subseteq invoked \cup Signalers BY <2>1, HeadTypes DEF SigPoll, Invoke
    <3> QED BY <3>1
  <2>2. CASE CtlPoll \/ CloseWithdraws \/ CloseEnds \/ CtlDone \/ ReplyPoll \/ BridgeStops \/ BridgeFailsAll \/ BridgeDown
    BY <1>0, <2>2 DEF CtlPoll, CloseWithdraws, CloseEnds, CtlDone, ReplyPoll, BridgeStops, BridgeFailsAll, BridgeDown
  <2> QED BY <1>3, <2>1, <2>2 DEF Bridge
<1>4. ASSUME NEW c \in Calls, ExtCall(c) PROVE G
  <2>1. invoked' \subseteq invoked \cup {c} BY <1>4, Issued DEF IssuedAs, Invoke
  <2>2. call[c].at = "new" BY <1>4 DEF ExtCall
  <2> QED BY <2>1, <2>2
<1>5. ASSUME NEW c \in Calls, Abandon(c) \/ CallReturns(c) PROVE G BY <1>0, <1>5 DEF Abandon, CallReturns
<1>6. ASSUME NEW g \in Signalers, ExtSignal(g) PROVE G BY <1>0, <1>6 DEF ExtSignal
<1>7. ASSUME NEW w \in Workers, Worker(w) PROVE G
  <2>1. CASE StartInvoke(w)
    <3> PICK m : m = wk[w].msg OBVIOUS
    <3>1. invoked' = invoked \/ (invoked' = invoked \cup {m} /\ (m \in Calls => call[m].st = "queued"))
      BY <2>1, StartCases
    <3> QED BY <3>1 DEF CallInv, CallAt
  <2>2. CASE TakeMessage(w) \/ SeeClosed(w) \/ EndInvoke(w)
    BY <1>0, <2>2 DEF TakeMessage, SeeClosed, EndInvoke
  <2> QED BY <1>7, <2>1, <2>2 DEF Worker
<1>8. CASE StopBegins \/ StopPool \/ StopEnds BY <1>0, <1>8 DEF StopBegins, StopPool, StopEnds
<1>10. CASE UNCHANGED vars BY <1>0, <1>10 DEF vars
<1> QED BY <1>1, <1>2, <1>3, <1>4, <1>5, <1>6, <1>7, <1>8, <1>10 DEF Next, Foreign

-----------------------------------------------------------------------------
(* CarryInv: a message on its way keeps its port, and its port was opened. *)

InFrame(c) == call[c].at \in {"waiting", "ended"}

LEMMA PortOfNext ==
    ASSUME BaseInv, CallInv, [Next]_vars
    PROVE  /\ \A c \in Calls : call[c].at # "new" => call'[c].port = call[c].port
           /\ \A g \in Signalers : sig[g] # NoPort => sig'[g] = sig[g]
           /\ \A c \in Calls : InFrame(c)' => InFrame(c) \/ ExtCall(c)
<1> DEFINE K == \A c \in Calls : InFrame(c)' => InFrame(c) \/ ExtCall(c)
<1> DEFINE C == \A c \in Calls : call[c].at # "new" => call'[c].port = call[c].port
           S == \A g \in Signalers : sig[g] # NoPort => sig'[g] = sig[g]
<1>0. ASSUME UNCHANGED <<call, sig>> PROVE C /\ S /\ K BY <1>0 DEF InFrame
<1>b. ASSUME NEW F, F \subseteq Waiting, NEW a \in {"ended", "done"},
             NEW p \in Ports \cup {NoPort}, EndCalls(F, a, p), UNCHANGED sig
      PROVE  C /\ S /\ K
  <2>0. F \subseteq Calls BY <1>b, WaitingCalls
  <2>1. ASSUME NEW c \in Calls PROVE call'[c].port = call[c].port /\ (InFrame(c)' => InFrame(c))
    <3>a. Ended(F, a, p) BY <1>b, <2>0, EndCallsFields, Types
    <3>1. c \notin F => call'[c] = call[c] BY <3>a DEF Ended
    <3>2. c \in F => call'[c].port = call[c].port BY <3>a DEF Ended
    <3>3. c \in F => InFrame(c) BY <1>b DEF Waiting, InFrame
    <3> QED BY <3>1, <3>2, <3>3 DEF InFrame
  <2> QED BY <1>b, <2>1
<1>1. ASSUME NEW t \in Sessions, Session(t) PROVE C /\ S /\ K
  BY <1>0, <1>1 DEF Session, Attach, OpenPort, Provide, ClosePort, Detach, CloseCtx, PostCtl, Returned
<1>2. ASSUME NEW c \in Calls, NEW p \in Ports, ExtReply(c, p) PROVE C /\ S /\ K BY <1>0, <1>2 DEF ExtReply
<1>3. CASE Bridge
  <2>1. CASE CloseWithdraws
    <3> PICK F : F = {c \in Waiting : call[c].port = <<Least(scan), gen[Least(scan)]>>} OBVIOUS
    <3>1. F \subseteq Waiting OBVIOUS
    <3>2. UNCHANGED sig /\ (EndCalls(F, "ended", NoPort) \/ UNCHANGED call)
      BY <2>1 DEF CloseWithdraws
    <3> QED BY <1>0, <1>b, <3>1, <3>2
  <2>2. CASE ReplyPoll
    <3> PICK r : r = Head(replies) OBVIOUS
    <3>1. r \in Replies BY <2>2, HeadTypes DEF ReplyPoll
    <3>2. UNCHANGED sig /\ ((EndCalls({r.call}, "ended", r.port) /\ {r.call} \subseteq Waiting)
                            \/ UNCHANGED call)
      BY <2>2 DEF ReplyPoll
    <3>3. r.port \in Ports BY <3>1 DEF Replies
    <3> QED BY <1>0, <1>b, <3>2, <3>3
  <2>3. CASE BridgeFailsAll
    <3>1. UNCHANGED sig /\ EndCalls(Waiting, "ended", NoPort) BY <2>3 DEF BridgeFailsAll
    <3> QED BY <1>b, <3>1
  <2>4. CASE CtlPoll \/ CloseEnds \/ CtlDone \/ SigPoll \/ BridgeStops \/ BridgeDown
    BY <1>0, <2>4 DEF CtlPoll, CloseEnds, CtlDone, SigPoll, BridgeStops, BridgeDown
  <2> QED BY <1>3, <2>1, <2>2, <2>3, <2>4 DEF Bridge
<1>4. ASSUME NEW c \in Calls, ExtCall(c) PROVE C /\ S /\ K
  <2>1. \E x : call' = [call EXCEPT ![c] = x] BY <1>4, Issued DEF IssuedAs
  <2>2. call[c].at = "new" /\ sig' = sig BY <1>4 DEF ExtCall
  <2>3. \A d \in Calls : d # c => call'[d] = call[d] BY <2>1, Types DEF CallTypes
  <2> QED BY <1>4, <2>2, <2>3 DEF InFrame
<1>5. ASSUME NEW c \in Calls, Abandon(c) PROVE C /\ S /\ K
  <2>1. UNCHANGED sig /\ EndCalls({c}, "done", NoPort) /\ {c} \subseteq Waiting BY <1>5 DEF Abandon
  <2> QED BY <1>b, <2>1
<1>5r. ASSUME NEW c \in Calls, CallReturns(c) PROVE C /\ S /\ K
  <2>1. /\ \A d \in Calls \ {c} : call'[d] = call[d]
        /\ call'[c].port = call[c].port /\ call'[c].at = "done"
    BY <1>5r, ReturnsFields, Types
  <2>2. UNCHANGED sig BY <1>5r DEF CallReturns
  <2> QED BY <2>1, <2>2 DEF InFrame
<1>6. ASSUME NEW g \in Signalers, ExtSignal(g) PROVE C /\ S /\ K
  <2>1. UNCHANGED call /\ sig[g] = NoPort /\ \E p : sig' = [sig EXCEPT ![g] = p] BY <1>6 DEF ExtSignal
  <2> QED BY <2>1, Types DEF PoolTypes, InFrame
<1>7. ASSUME NEW w \in Workers, Worker(w) PROVE C /\ S /\ K
  <2>1. CASE StartInvoke(w)
    <3>1. UNCHANGED sig BY <2>1 DEF StartInvoke
    <3>2. call' = call \/ \E m \in Calls : call' = [call EXCEPT ![m].st = "running"]
      BY <2>1, StartCases
    <3> QED BY <3>1, <3>2, StartFields DEF InFrame
  <2>2. CASE TakeMessage(w) \/ SeeClosed(w) \/ EndInvoke(w)
    BY <1>0, <2>2 DEF TakeMessage, SeeClosed, EndInvoke
  <2> QED BY <1>7, <2>1, <2>2 DEF Worker
<1>8. CASE StopBegins \/ StopPool \/ StopEnds BY <1>0, <1>8 DEF StopBegins, StopPool, StopEnds
<1>10. CASE UNCHANGED vars BY <1>0, <1>10 DEF vars
<1> QED BY <1>1, <1>2, <1>3, <1>4, <1>5, <1>5r, <1>6, <1>7, <1>8, <1>10 DEF Next, Foreign

\* What message m carries: a port that was opened.
Carries(m) == m \in Messages /\ Made(PortOf(m))

LEMMA CarriesStep ==
    ASSUME BaseInv, CallInv, [Next]_vars, NEW m, Carries(m)
    PROVE  Carries(m)' /\ PortOf(m)' = PortOf(m)
<1> PICK p : p = PortOf(m) OBVIOUS
<1>1. m \in Messages /\ Made(p) /\ p \in Ports BY DEF Carries, Made
<1>2. Made(p)' BY <1>1, MadeStep
<1>3. CASE m \in Calls
  <2>1. p = call[m].port BY <1>3 DEF PortOf
  <2>2. call[m].at # "new" BY <1>1, <1>3, <2>1 DEF CallInv, CallAt
  <2>3. PortOf(m)' = p BY <1>3, <2>1, <2>2, PortOfNext DEF PortOf
  <2> QED BY <1>1, <1>2, <2>3 DEF Carries
<1>4. CASE m \notin Calls
  <2>1. m \in Signalers /\ p = sig[m] BY <1>1, <1>4 DEF PortOf, Messages
  <2>2. PortOf(m)' = p BY <1>1, <1>4, <2>1, PortOfNext DEF PortOf
  <2> QED BY <1>1, <1>2, <2>2 DEF Carries
<1> QED BY <1>3, <1>4

LEMMA Carried ==
    ASSUME BaseInv, CarryInv
    PROVE  /\ \A i \in 1 .. Len(queue) : Carries(queue[i])
           /\ \A i \in 1 .. Len(sigRing) : Carries(sigRing[i])
           /\ \A w \in Workers : wk[w].msg # Nobody => Carries(wk[w].msg)
           /\ queue # <<>> => Carries(Head(queue))
           /\ sigRing # <<>> => Carries(Head(sigRing)) /\ PortOf(Head(sigRing)) = sig[Head(sigRing)]
<1>1. queue \in Seq(Messages) /\ sigRing \in Seq(Signalers) BY Types DEF PoolTypes
<1>2. \A i \in 1 .. Len(queue) : Carries(queue[i]) BY <1>1 DEF CarryInv, Carries
<1>3. \A i \in 1 .. Len(sigRing) : Carries(sigRing[i]) BY <1>1 DEF CarryInv, Carries, Messages
<1>4. \A w \in Workers : wk[w].msg # Nobody => Carries(wk[w].msg)
  BY Types DEF CarryInv, Carries, PoolTypes
<1>5. queue # <<>> => Carries(Head(queue))
  <2>1. queue # <<>> => Head(queue) = queue[1] /\ 1 \in 1 .. Len(queue) BY <1>1
  <2> QED BY <1>2, <2>1
<1>6. sigRing # <<>> => Carries(Head(sigRing)) /\ PortOf(Head(sigRing)) = sig[Head(sigRing)]
  <2>1. sigRing # <<>> => Head(sigRing) = sigRing[1] /\ 1 \in 1 .. Len(sigRing) /\ sigRing[1] \in Signalers
    BY <1>1
  <2> QED BY <1>3, <2>1 DEF PortOf
<1> QED BY <1>2, <1>3, <1>4, <1>5, <1>6

\* Every place holds something carried before, or what the step brings.
LEMMA CarryBy ==
    ASSUME BaseInv, BaseInv', CallInv, CarryInv, FramedMade', [Next]_vars, NEW n, n \in Messages => Carries(n)',
           queue' \in {queue, <<>>} \/ (queue # <<>> /\ queue' = Tail(queue))
             \/ (n \in Messages /\ queue' = Append(queue, n)),
           sigRing' \in {sigRing, <<>>} \/ (sigRing # <<>> /\ sigRing' = Tail(sigRing))
             \/ (n \in Messages /\ sigRing' = Append(sigRing, n)),
           \A w \in Workers :
             \/ wk'[w].msg \in {wk[w].msg, Nobody} 
             \/ queue # <<>> /\ wk'[w].msg = Head(queue)
    PROVE  CarryInv'
<1>1. queue \in Seq(Messages) /\ sigRing \in Seq(Signalers) BY Types DEF PoolTypes
<1>2. \A m : Carries(m) => Carries(m)' BY CarriesStep
<1>3. ASSUME NEW i \in 1 .. Len(queue') PROVE Carries(queue[i])'
  <2>1. \/ queue'[i] = n /\ n \in Messages
        \/ \E j \in 1 .. Len(queue) : queue'[i] = queue[j]
    <3>1. CASE queue' \in {queue, <<>>} BY <1>1, <3>1
    <3>2. CASE queue # <<>> /\ queue' = Tail(queue)
      <4>1. i + 1 \in 1 .. Len(queue) /\ queue'[i] = queue[i + 1] BY <1>1, <3>2
      <4> QED BY <4>1
    <3>3. CASE n \in Messages /\ queue' = Append(queue, n)
      <4>1. i = Len(queue) + 1 => queue'[i] = n BY <1>1, <3>3
      <4>2. i # Len(queue) + 1 => i \in 1 .. Len(queue) /\ queue'[i] = queue[i] BY <1>1, <3>3
      <4> QED BY <3>3, <4>1, <4>2
    <3> QED BY <3>1, <3>2, <3>3
  <2> PICK m : m = queue'[i] OBVIOUS
  <2>2. Carries(m)' BY <1>2, <2>1, Carried
  <2> QED BY <2>2 DEF Carries, PortOf, Made
<1>4. ASSUME NEW i \in 1 .. Len(sigRing') PROVE Carries(sigRing[i])'
  <2>1. \/ sigRing'[i] = n /\ n \in Messages
        \/ \E j \in 1 .. Len(sigRing) : sigRing'[i] = sigRing[j]
    <3>1. CASE sigRing' \in {sigRing, <<>>} BY <1>1, <3>1
    <3>2. CASE sigRing # <<>> /\ sigRing' = Tail(sigRing)
      <4>1. i + 1 \in 1 .. Len(sigRing) /\ sigRing'[i] = sigRing[i + 1] BY <1>1, <3>2
      <4> QED BY <4>1
    <3>3. CASE n \in Messages /\ sigRing' = Append(sigRing, n)
      <4>1. i = Len(sigRing) + 1 => sigRing'[i] = n BY <1>1, <3>3
      <4>2. i # Len(sigRing) + 1 => i \in 1 .. Len(sigRing) /\ sigRing'[i] = sigRing[i] BY <1>1, <3>3
      <4> QED BY <3>3, <4>1, <4>2
    <3> QED BY <3>1, <3>2, <3>3
  <2> PICK m : m = sigRing'[i] OBVIOUS
  <2>2. Carries(m)' BY <1>2, <2>1, Carried
  <2> QED BY <2>2 DEF Carries, PortOf, Made
<1>5. ASSUME NEW w \in Workers, wk'[w].msg # Nobody PROVE Carries(wk[w].msg)'
  <2> PICK m : m = wk'[w].msg OBVIOUS
  <2>1. Carries(m)' BY <1>2, <1>5, Carried
  <2> QED BY <2>1 DEF Carries, PortOf, Made
<1> QED BY <1>3, <1>4, <1>5 DEF CarryInv, Carries

LEMMA DropMessages ==
    ASSUME BaseInv, NEW w \in Workers, NEW m, Drop(w, m)
    PROVE  /\ wk' \in [Workers -> [at : {"idle", "taken", "open", "invoking"}, msg : Messages \cup {Nobody}]]
           /\ wk'[w].msg = Nobody /\ \A v \in Workers \ {w} : wk'[v] = wk[v]
BY Types DEF Drop, PoolTypes

LEMMA WorkerMessages ==
    ASSUME BaseInv, NEW w \in Workers, Worker(w)
    PROVE  \A v \in Workers :
             \/ wk'[v].msg \in {wk[v].msg, Nobody}
             \/ queue # <<>> /\ wk'[v].msg = Head(queue)
<1>a. wk \in [Workers -> [at : {"idle", "taken", "open", "invoking"}, msg : Messages \cup {Nobody}]]
  BY Types DEF PoolTypes
<1>1. CASE TakeMessage(w) BY <1>a, <1>1 DEF TakeMessage
<1>2. ASSUME NEW m, Drop(w, m)
      PROVE  \A v \in Workers : wk'[v].msg \in {wk[v].msg, Nobody}
  BY <1>2, DropMessages
<1>3. ASSUME NEW a, wk' = [wk EXCEPT ![w].at = a]
      PROVE  \A v \in Workers : wk'[v].msg \in {wk[v].msg, Nobody}
  BY <1>a, <1>3
<1>4. CASE SeeClosed(w) BY <1>2, <1>3, <1>4 DEF SeeClosed
<1>5. CASE StartInvoke(w) BY <1>2, <1>3, <1>5, StartCases
<1>6. CASE EndInvoke(w) BY <1>2, <1>6 DEF EndInvoke
<1> QED BY <1>1, <1>4, <1>5, <1>6 DEF Worker

LEMMA FramedStep ==
    ASSUME BaseInv, PortInv, CallInv, FramedMade, [Next]_vars
    PROVE  FramedMade'
<1> SUFFICES ASSUME NEW c \in Framed' PROVE Made(call[c].port)'
    BY DEF FramedMade
<1> PICK p : p = call'[c].port OBVIOUS
<1>1. c \in Calls /\ InFrame(c)' BY DEF Framed, InFrame
<1>2. Made(p)
  <2>1. CASE InFrame(c)
    <3>1. c \in Framed /\ call[c].at # "new" BY <1>1, <2>1 DEF Framed, InFrame
    <3>2. p = call[c].port BY <1>1, <3>1, PortOfNext
    <3> QED BY <3>1, <3>2 DEF FramedMade
  <2>2. CASE ExtCall(c)
    <3>1. PICK q \in Ports \cup {NoPort}, a \in {"waiting", "done"}, s \in {"none", "queued"} :
             IssuedAs(c, q, a, s)
      BY <1>1, <2>2, Issued
    <3>2. call' = [call EXCEPT ![c] = [at |-> a, port |-> q, st |-> s, by |-> NoPort]]
      BY <3>1 DEF IssuedAs
    <3>3. call'[c] = [at |-> a, port |-> q, st |-> s, by |-> NoPort]
      BY <1>1, <3>2, Types DEF CallTypes
    <3>4. a = "waiting" /\ p = q BY <1>1, <3>3 DEF InFrame
    <3>5. q # NoPort /\ \E n \in Names : q = source[n] BY <3>1, <3>4 DEF IssuedAs
    <3> QED BY <3>4, <3>5, OpenIsMade DEF PortInv, SourceIsOpen
  <2> QED BY <1>1, <2>1, <2>2, PortOfNext
<1>3. Made(p)' BY <1>2, MadeStep
<1> QED BY <1>3 DEF Made

LEMMA CarryStep ==
    ASSUME BaseInv, PortInv, CallInv, CarryInv, [Next]_vars
    PROVE  CarryInv'
<1>a. BaseInv' BY BaseStep
<1>f. FramedMade' BY FramedStep DEF CarryInv
<1>0. ASSUME UNCHANGED wk,
             queue' \in {queue, <<>>},
             sigRing' \in {sigRing, <<>>} \/ (sigRing # <<>> /\ sigRing' = Tail(sigRing))
      PROVE  CarryInv'
  <2>1. Nobody \notin Messages OBVIOUS
  <2> QED BY <1>f, <1>0, <1>a, <2>1, CarryBy
<1>1. ASSUME NEW t \in Sessions, Session(t) PROVE CarryInv'
  BY <1>0, <1>1 DEF Session, Attach, OpenPort, Provide, ClosePort, Detach, CloseCtx, PostCtl, Returned
<1>2. ASSUME NEW c \in Calls, NEW p \in Ports, ExtReply(c, p) PROVE CarryInv' BY <1>0, <1>2 DEF ExtReply
<1>3. CASE Bridge
  BY <1>0, <1>3 DEF Bridge, CtlPoll, CloseWithdraws, CloseEnds, CtlDone, ReplyPoll, SigPoll, BridgeStops,
                    BridgeFailsAll, BridgeDown
<1>4. ASSUME NEW c \in Calls, ExtCall(c) PROVE CarryInv'
  <2>i. PICK p \in Ports \cup {NoPort}, a \in {"waiting", "done"}, s \in {"none", "queued"} :
           IssuedAs(c, p, a, s)
    BY <1>4, Issued
  <2>1. /\ call' = [call EXCEPT ![c] = [at |-> a, port |-> p, st |-> s, by |-> NoPort]]
        /\ UNCHANGED queue \/ (queue' = Append(queue, c) /\ p # NoPort)
        /\ \E n \in Names : p = source[n]
    BY <2>i DEF IssuedAs
  <2>2. UNCHANGED <<wk, sigRing, gen>> BY <1>4 DEF ExtCall
  <2>3. ASSUME p # NoPort PROVE Carries(c)'
    <3>1. Made(p) BY <2>1, <2>3, OpenIsMade DEF PortInv, SourceIsOpen
    <3>2. Made(p)' BY <3>1, MadeStep
    <3>3. PortOf(c)' = p BY <2>1, Types DEF PortOf, CallTypes
    <3> QED BY <3>2, <3>3 DEF Carries, Messages
  <2>4. CASE queue' = Append(queue, c) /\ p # NoPort
    <3>1. c \in Messages BY DEF Messages
    <3> QED BY <1>f, <1>a, <2>2, <2>3, <2>4, <3>1, CarryBy
  <2> QED BY <1>0, <2>1, <2>2, <2>4
<1>5. ASSUME NEW c \in Calls, Abandon(c) \/ CallReturns(c) PROVE CarryInv' BY <1>0, <1>5 DEF Abandon, CallReturns
<1>6. ASSUME NEW g \in Signalers, ExtSignal(g) PROVE CarryInv'
  <2>1. PICK p : /\ IsOpen(p) /\ sig' = [sig EXCEPT ![g] = p] /\ UNCHANGED wk
                 /\ \/ queue' = Append(queue, g) /\ UNCHANGED sigRing
                    \/ sigRing' = Append(sigRing, g) /\ UNCHANGED queue
    BY <1>6 DEF ExtSignal
  <2>2. Made(p)' BY <2>1, OpenIsMade, MadeStep
  <2>3. PortOf(g)' = p BY <2>1, Types DEF PortOf, PoolTypes
  <2>4. g \in Messages /\ Carries(g)' BY <2>2, <2>3 DEF Carries, Messages
  <2> QED BY <1>f, <1>a, <2>1, <2>4, CarryBy
<1>7. ASSUME NEW w \in Workers, Worker(w) PROVE CarryInv'
  <2>1. queue' = queue \/ (queue # <<>> /\ queue' = Tail(queue))
    BY <1>7 DEF Worker, TakeMessage, SeeClosed, StartInvoke, EndInvoke
  <2>2. UNCHANGED sigRing BY <1>7 DEF Worker, TakeMessage, SeeClosed, StartInvoke, EndInvoke
  <2>3. Nobody \notin Messages OBVIOUS
  <2> QED BY <1>f, <1>7, <1>a, <2>1, <2>2, <2>3, WorkerMessages, CarryBy
<1>8. CASE StopBegins \/ StopPool \/ StopEnds BY <1>0, <1>8 DEF StopBegins, StopPool, StopEnds
<1>10. CASE UNCHANGED vars BY <1>0, <1>10 DEF vars
<1> QED BY <1>1, <1>2, <1>3, <1>4, <1>5, <1>6, <1>7, <1>8, <1>10 DEF Next, Foreign

-----------------------------------------------------------------------------
(* Counting the places of a sequence that hold a member of S.              *)

Places(q, S) == {i \in 1 .. Len(q) : q[i] \in S}

LEMMA PlacesFinite ==
    ASSUME NEW q \in Seq(Messages), NEW S
    PROVE  IsFiniteSet(Places(q, S)) /\ Cardinality(Places(q, S)) \in Nat
<1>1. Places(q, S) \subseteq 1 .. Len(q) /\ Len(q) \in Nat BY DEF Places
<1>2. IsFiniteSet(1 .. Len(q)) BY <1>1, FS_Interval
<1> QED BY <1>1, <1>2, FS_Subset, FS_CardinalityType

LEMMA PlacesEmpty ==
    ASSUME NEW S
    PROVE  Cardinality(Places(<<>>, S)) = 0
<1>1. Places(<<>>, S) = {} BY DEF Places
<1> QED BY <1>1, FS_EmptySet

LEMMA PlacesAppend ==
    ASSUME NEW q \in Seq(Messages), NEW m \in Messages, NEW S
    PROVE  Cardinality(Places(Append(q, m), S)) = Cardinality(Places(q, S)) + (IF m \in S THEN 1 ELSE 0)
<1> PICK n : n = Len(q) OBVIOUS
<1> PICK r : r = Append(q, m) OBVIOUS
<1>1. /\ n \in Nat /\ Len(r) = n + 1 /\ r[n + 1] = m
      /\ \A i \in 1 .. n : r[i] = q[i]
  OBVIOUS
<1>2. CASE m \in S
  <2>1. \A i \in 1 .. n + 1 : i \in Places(r, S) <=> i \in Places(q, S) \/ i = n + 1
    BY <1>1, <1>2 DEF Places
  <2>2. Places(r, S) \subseteq 1 .. n + 1 /\ Places(q, S) \subseteq 1 .. n BY <1>1 DEF Places
  <2>3. Places(r, S) = Places(q, S) \cup {n + 1} /\ n + 1 \notin Places(q, S) BY <1>1, <2>1, <2>2
  <2>4. Cardinality(Places(q, S) \cup {n + 1}) = Cardinality(Places(q, S)) + 1
    BY <2>3, PlacesFinite, FS_AddElement
  <2> QED BY <1>2, <2>3, <2>4
<1>3. CASE m \notin S
  <2>1. \A i \in 1 .. n + 1 : i \in Places(r, S) <=> i \in Places(q, S) BY <1>1, <1>3 DEF Places
  <2>2. Places(r, S) \subseteq 1 .. n + 1 /\ Places(q, S) \subseteq 1 .. n BY <1>1 DEF Places
  <2>3. Places(q, S) \subseteq 1 .. n + 1 BY <1>1, <2>2
  <2>4. Places(r, S) = Places(q, S) BY <2>1, <2>2, <2>3, Zenon
  <2> QED BY <1>3, <2>4, PlacesFinite
<1> QED BY <1>2, <1>3

LEMMA PlacesTail ==
    ASSUME NEW q \in Seq(Messages), q # <<>>, NEW S
    PROVE  Cardinality(Places(q, S)) = Cardinality(Places(Tail(q), S)) + (IF Head(q) \in S THEN 1 ELSE 0)
<1> PICK n : n = Len(q) OBVIOUS
<1> PICK r : r = Tail(q) OBVIOUS
<1>1. /\ n \in Nat \ {0} /\ Len(r) = n - 1 /\ Head(q) = q[1] /\ r \in Seq(Messages)
      /\ \A i \in 1 .. n - 1 : r[i] = q[i + 1]
  OBVIOUS
<1> DEFINE P == Places(q, S) \ {1}
           R == Places(r, S)
           f == [i \in R |-> i + 1]
<1>2. /\ R \subseteq 1 .. n - 1 /\ P \subseteq 2 .. n
      /\ \A i \in 1 .. n - 1 : i \in R <=> i + 1 \in P
  BY <1>1 DEF Places
<1> HIDE DEF P, R
<1>3. f \in [R -> P] BY <1>1, <1>2
<1>4. \A i, j \in R : f[i] = f[j] => i = j BY <1>1, <1>2
<1>5. ASSUME NEW j \in P PROVE \E i \in R : f[i] = j
  <2>1. j - 1 \in 1 .. n - 1 /\ (j - 1) + 1 = j BY <1>1, <1>2
  <2>2. j - 1 \in R BY <1>2, <2>1
  <2> QED BY <2>1, <2>2
<1>6. f \in Bijection(R, P) BY <1>3, <1>4, <1>5, Zenon DEF Bijection, Injection, Surjection, IsInjective
<1>7. IsFiniteSet(R) BY <1>1, PlacesFinite DEF R
<1>8. Cardinality(P) = Cardinality(R) BY <1>6, <1>7, FS_Bijection DEF ExistsBijection
<1>9. 1 \in Places(q, S) <=> Head(q) \in S BY <1>1 DEF Places
<1>10. Cardinality(P) = IF 1 \in Places(q, S) THEN Cardinality(Places(q, S)) - 1 ELSE Cardinality(Places(q, S))
  BY PlacesFinite, FS_RemoveElement DEF P
<1>11. Cardinality(R) = Cardinality(Places(r, S)) BY DEF R
<1>12. Cardinality(Places(q, S)) \in Nat /\ Cardinality(Places(r, S)) \in Nat BY <1>1, PlacesFinite
<1>13. Cardinality(Places(r, S)) = IF Head(q) \in S THEN Cardinality(Places(q, S)) - 1
                                   ELSE Cardinality(Places(q, S))
  BY <1>8, <1>9, <1>10, <1>11
<1>14. CASE Head(q) \in S BY <1>12, <1>13, <1>14
<1>15. CASE Head(q) \notin S BY <1>12, <1>13, <1>15
<1> QED BY <1>14, <1>15

-----------------------------------------------------------------------------
(* CountInv: the reference count of an impl is the number of those that    *)
(* can still call it.                                                      *)

FramesOn(p) == {c \in Framed : call[c].port = p}
HeldBy(p) == {w \in Workers : wk[w].msg # Nobody /\ PortOf(wk[w].msg) = p}
CarriersOf(p) == {m \in Messages : PortOf(m) = p}
Attached(p) == IF IsOpen(p) THEN 1 ELSE 0
Users(p) == Cardinality(FramesOn(p))
Workings(p) == Cardinality(HeldBy(p))

CountAt(p) == refs[p] = Attached(p) + Users(p) + InQueue(p) + InSigRing(p) + Workings(p)

LEMMA CountIs == ImplCounted <=> \A p \in Ports : CountAt(p)
BY DEF ImplCounted, CountAt, Attached, Users, FramesOn, Workings, HeldBy

LEMMA CountNats ==
    ASSUME BaseInv, NEW p \in Ports
    PROVE  /\ IsFiniteSet(FramesOn(p)) /\ IsFiniteSet(HeldBy(p))
           /\ Users(p) \in Nat /\ Workings(p) \in Nat /\ Attached(p) \in {0, 1} /\ refs[p] \in Int
           /\ InQueue(p) = Cardinality(Places(queue, CarriersOf(p))) /\ InQueue(p) \in Nat
           /\ InSigRing(p) = Cardinality(Places(sigRing, CarriersOf(p))) /\ InSigRing(p) \in Nat
<1>1. FramesOn(p) \subseteq Calls /\ HeldBy(p) \subseteq Workers BY DEF FramesOn, HeldBy, Framed
<1>2. IsFiniteSet(FramesOn(p)) /\ IsFiniteSet(HeldBy(p)) BY <1>1, FS_Subset
<1>3. Users(p) \in Nat /\ Workings(p) \in Nat BY <1>2, FS_CardinalityType DEF Users, Workings
<1>4. queue \in Seq(Messages) /\ sigRing \in Seq(Signalers) BY Types DEF PoolTypes
<1>5. sigRing \in Seq(Messages) BY <1>4 DEF Messages
<1>6. {i \in 1 .. Len(queue) : PortOf(queue[i]) = p} = Places(queue, CarriersOf(p))
  BY <1>4 DEF Places, CarriersOf
<1>7. {i \in 1 .. Len(sigRing) : PortOf(sigRing[i]) = p} = Places(sigRing, CarriersOf(p))
  BY <1>5 DEF Places, CarriersOf
<1>8. InQueue(p) = Cardinality(Places(queue, CarriersOf(p))) /\ InQueue(p) \in Nat
  BY <1>4, <1>6, PlacesFinite DEF InQueue
<1>9. InSigRing(p) = Cardinality(Places(sigRing, CarriersOf(p))) /\ InSigRing(p) \in Nat
  BY <1>5, <1>7, PlacesFinite DEF InSigRing
<1>10. Attached(p) \in {0, 1} /\ refs[p] \in Int BY Types DEF Attached, PortTypes
<1> QED BY <1>2, <1>3, <1>8, <1>9, <1>10

LEMMA CountNatsNext ==
    (BaseInv => \A p \in Ports :
       /\ IsFiniteSet(FramesOn(p)) /\ IsFiniteSet(HeldBy(p))
       /\ Users(p) \in Nat /\ Workings(p) \in Nat /\ Attached(p) \in {0, 1} /\ refs[p] \in Int
       /\ InQueue(p) = Cardinality(Places(queue, CarriersOf(p))) /\ InQueue(p) \in Nat
       /\ InSigRing(p) = Cardinality(Places(sigRing, CarriersOf(p))) /\ InSigRing(p) \in Nat)'
<1>1. BaseInv => \A p \in Ports :
       /\ IsFiniteSet(FramesOn(p)) /\ IsFiniteSet(HeldBy(p))
       /\ Users(p) \in Nat /\ Workings(p) \in Nat /\ Attached(p) \in {0, 1} /\ refs[p] \in Int
       /\ InQueue(p) = Cardinality(Places(queue, CarriersOf(p))) /\ InQueue(p) \in Nat
       /\ InSigRing(p) = Cardinality(Places(sigRing, CarriersOf(p))) /\ InSigRing(p) \in Nat
  BY CountNats
<1> QED BY <1>1, PTL

CountInv == \A p \in Ports : CountAt(p)

\* A step from a state in which all of the invariant holds.
Stepping == BaseInv /\ BaseInv' /\ PortInv /\ CallInv /\ CarryInv /\ CountInv /\ [Next]_vars

LEMMA CarriersKept ==
    ASSUME Stepping, NEW q \in Seq(Messages), \A i \in 1 .. Len(q) : Carries(q[i]), NEW p
    PROVE  Places(q, CarriersOf(p)') = Places(q, CarriersOf(p))
<1> PICK S : S = CarriersOf(p)' OBVIOUS
<1>1. ASSUME NEW i \in 1 .. Len(q) PROVE q[i] \in S <=> q[i] \in CarriersOf(p)
  <2> PICK m : m = q[i] OBVIOUS
  <2>1. m \in Messages /\ PortOf(m)' = PortOf(m) BY CarriesStep DEF Stepping, Carries
  <2>2. m \in S <=> PortOf(m)' = p BY <2>1 DEF CarriersOf
  <2>3. m \in CarriersOf(p) <=> PortOf(m) = p BY <2>1 DEF CarriersOf
  <2> QED BY <2>1, <2>2, <2>3
<1> QED BY <1>1 DEF Places

LEMMA QueueCounts ==
    ASSUME Stepping, NEW p \in Ports
    PROVE  /\ queue' = queue => InQueue(p)' = InQueue(p)
           /\ queue' = <<>> => InQueue(p)' = 0
           /\ queue # <<>> /\ queue' = Tail(queue) =>
                InQueue(p) = InQueue(p)' + (IF PortOf(Head(queue)) = p THEN 1 ELSE 0)
           /\ \A m \in Messages : queue' = Append(queue, m) =>
                InQueue(p)' = InQueue(p) + (IF PortOf(m)' = p THEN 1 ELSE 0)
<1> PICK S : S = CarriersOf(p)' OBVIOUS
<1>1. InQueue(p) = Cardinality(Places(queue, CarriersOf(p))) /\ InQueue(p)' = Cardinality(Places(queue', S))
  BY CountNats, CountNatsNext DEF Stepping
<1>2. queue \in Seq(Messages) /\ \A i \in 1 .. Len(queue) : Carries(queue[i])
  BY Carried, Types DEF Stepping, PoolTypes
<1>3. Places(queue, S) = Places(queue, CarriersOf(p)) BY <1>2, CarriersKept
<1>4. queue' = queue => InQueue(p)' = InQueue(p) BY <1>1, <1>3
<1>5. queue' = <<>> => InQueue(p)' = 0 BY <1>1, PlacesEmpty
<1>6. ASSUME queue # <<>>, queue' = Tail(queue)
      PROVE  InQueue(p) = InQueue(p)' + (IF PortOf(Head(queue)) = p THEN 1 ELSE 0)
  <2> PICK m : m = Head(queue) OBVIOUS
  <2>1. m \in Messages /\ PortOf(m)' = PortOf(m) BY <1>6, Carried, CarriesStep DEF Stepping, Carries
  <2>2. m \in S <=> PortOf(m) = p BY <2>1 DEF CarriersOf
  <2>3. Cardinality(Places(queue, S)) = Cardinality(Places(Tail(queue), S)) + (IF Head(queue) \in S THEN 1 ELSE 0)
    BY <1>2, <1>6, PlacesTail
  <2> QED BY <1>1, <1>3, <1>6, <2>2, <2>3
<1>7. ASSUME NEW m \in Messages, queue' = Append(queue, m)
      PROVE  InQueue(p)' = InQueue(p) + (IF PortOf(m)' = p THEN 1 ELSE 0)
  <2>1. m \in S <=> PortOf(m)' = p BY DEF CarriersOf
  <2>2. Cardinality(Places(Append(queue, m), S)) = Cardinality(Places(queue, S)) + (IF m \in S THEN 1 ELSE 0)
    BY <1>2, PlacesAppend
  <2> QED BY <1>1, <1>3, <1>7, <2>1, <2>2
<1> QED BY <1>4, <1>5, <1>6, <1>7

LEMMA RingCounts ==
    ASSUME Stepping, NEW p \in Ports
    PROVE  /\ sigRing' = sigRing => InSigRing(p)' = InSigRing(p)
           /\ sigRing' = <<>> => InSigRing(p)' = 0
           /\ sigRing # <<>> /\ sigRing' = Tail(sigRing) =>
                InSigRing(p) = InSigRing(p)' + (IF sig[Head(sigRing)] = p THEN 1 ELSE 0)
           /\ \A m \in Signalers : sigRing' = Append(sigRing, m) =>
                InSigRing(p)' = InSigRing(p) + (IF PortOf(m)' = p THEN 1 ELSE 0)
<1> PICK S : S = CarriersOf(p)' OBVIOUS
<1>1. InSigRing(p) = Cardinality(Places(sigRing, CarriersOf(p))) /\ InSigRing(p)' = Cardinality(Places(sigRing', S))
  BY CountNats, CountNatsNext DEF Stepping
<1>2. sigRing \in Seq(Messages) /\ \A i \in 1 .. Len(sigRing) : Carries(sigRing[i])
  <2>1. sigRing \in Seq(Signalers) BY Types DEF Stepping, PoolTypes
  <2> QED BY <2>1, Carried DEF Stepping, Messages
<1>3. Places(sigRing, S) = Places(sigRing, CarriersOf(p)) BY <1>2, CarriersKept
<1>4. sigRing' = sigRing => InSigRing(p)' = InSigRing(p) BY <1>1, <1>3
<1>5. sigRing' = <<>> => InSigRing(p)' = 0 BY <1>1, PlacesEmpty
<1>6. ASSUME sigRing # <<>>, sigRing' = Tail(sigRing)
      PROVE  InSigRing(p) = InSigRing(p)' + (IF sig[Head(sigRing)] = p THEN 1 ELSE 0)
  <2> PICK m : m = Head(sigRing) OBVIOUS
  <2>1. m \in Messages /\ PortOf(m)' = sig[m]
    <3>1. Carries(m) /\ PortOf(m) = sig[m] BY <1>6, Carried DEF Stepping
    <3> QED BY <3>1, CarriesStep DEF Stepping, Carries
  <2>2. m \in S <=> sig[m] = p BY <2>1 DEF CarriersOf
  <2>3. Cardinality(Places(sigRing, S)) = Cardinality(Places(Tail(sigRing), S)) + (IF Head(sigRing) \in S THEN 1 ELSE 0)
    BY <1>2, <1>6, PlacesTail
  <2> QED BY <1>1, <1>3, <1>6, <2>2, <2>3
<1>7. ASSUME NEW m \in Signalers, sigRing' = Append(sigRing, m)
      PROVE  InSigRing(p)' = InSigRing(p) + (IF PortOf(m)' = p THEN 1 ELSE 0)
  <2>1. m \in Messages BY DEF Messages
  <2>2. m \in S <=> PortOf(m)' = p BY <2>1 DEF CarriersOf
  <2>3. Cardinality(Places(Append(sigRing, m), S)) = Cardinality(Places(sigRing, S)) + (IF m \in S THEN 1 ELSE 0)
    BY <1>2, <2>1, PlacesAppend
  <2> QED BY <1>1, <1>3, <1>7, <2>2, <2>3
<1> QED BY <1>4, <1>5, <1>6, <1>7

\* A port a worker holds through its message.
LEMMA HeldNext ==
    ASSUME Stepping, NEW p, NEW v \in Workers, wk'[v].msg = wk[v].msg
    PROVE  v \in HeldBy(p)' <=> v \in HeldBy(p)
<1> PICK m : m = wk[v].msg OBVIOUS
<1>1. CASE m = Nobody BY <1>1 DEF HeldBy
<1>2. CASE m # Nobody
  <2>1. PortOf(m)' = PortOf(m) BY <1>2, Carried, CarriesStep DEF Stepping
  <2>2. PortOf(wk[v].msg)' = PortOf(m)' BY DEF PortOf
  <2>3. v \in HeldBy(p)' <=> PortOf(m)' = p BY <1>2, <2>2 DEF HeldBy
  <2>4. v \in HeldBy(p) <=> PortOf(m) = p BY <1>2 DEF HeldBy
  <2> QED BY <2>1, <2>3, <2>4
<1> QED BY <1>1, <1>2

LEMMA WorkingsSame ==
    ASSUME Stepping, \A v \in Workers : wk'[v].msg = wk[v].msg, NEW p
    PROVE  Workings(p)' = Workings(p)
<1>1. \A v \in Workers : v \in HeldBy(p)' <=> v \in HeldBy(p) BY HeldNext
<1>2. HeldBy(p) \subseteq Workers /\ HeldBy(p)' \subseteq Workers BY DEF HeldBy
<1>3. HeldBy(p)' = HeldBy(p) BY <1>1, <1>2
<1> QED BY <1>3 DEF Workings

LEMMA WorkingsTake ==
    ASSUME Stepping, NEW w \in Workers, TakeMessage(w), NEW p \in Ports
    PROVE  Workings(p)' = Workings(p) + (IF PortOf(Head(queue)) = p THEN 1 ELSE 0)
<1> PICK m : m = Head(queue) OBVIOUS
<1>1. /\ wk' = [wk EXCEPT ![w] = [at |-> "taken", msg |-> m]] /\ queue # <<>>
      /\ wk[w].msg = Nobody
      /\ wk \in [Workers -> [at : {"idle", "taken", "open", "invoking"}, msg : Messages \cup {Nobody}]]
  BY Types DEF TakeMessage, Stepping, PoolTypes
<1>2. m \in Messages /\ PortOf(m)' = PortOf(m) /\ m # Nobody
  BY <1>1, Carried, CarriesStep DEF Stepping, Carries
<1>3. wk'[w].msg = m /\ \A v \in Workers \ {w} : wk'[v].msg = wk[v].msg BY <1>1
<1>4. w \in HeldBy(p)' <=> PortOf(m) = p
  <2>1. PortOf(wk[w].msg)' = PortOf(m)' BY <1>3 DEF PortOf
  <2> QED BY <1>2, <1>3, <2>1 DEF HeldBy
<1>5. w \notin HeldBy(p) BY <1>1 DEF HeldBy
<1>6. \A v \in Workers \ {w} : v \in HeldBy(p)' <=> v \in HeldBy(p) BY <1>3, HeldNext
<1>7. HeldBy(p) \subseteq Workers /\ HeldBy(p)' \subseteq Workers BY DEF HeldBy
<1>8. IsFiniteSet(HeldBy(p)) /\ Workings(p) \in Nat BY CountNats DEF Stepping
<1>9. CASE PortOf(m) = p
  <2>1. HeldBy(p)' = HeldBy(p) \cup {w} BY <1>4, <1>6, <1>7, <1>9
  <2>2. Cardinality(HeldBy(p) \cup {w}) = Cardinality(HeldBy(p)) + 1 BY <1>5, <1>8, FS_AddElement
  <2> QED BY <1>9, <2>1, <2>2 DEF Workings
<1>10. CASE PortOf(m) # p
  <2>1. HeldBy(p)' = HeldBy(p) BY <1>4, <1>5, <1>6, <1>7, <1>10
  <2> QED BY <1>8, <1>10, <2>1 DEF Workings
<1> QED BY <1>9, <1>10

LEMMA WorkingsDrop ==
    ASSUME Stepping, NEW w \in Workers, NEW m, m = wk[w].msg, m # Nobody, Drop(w, m), NEW p \in Ports
    PROVE  Workings(p) = Workings(p)' + (IF PortOf(m) = p THEN 1 ELSE 0)
<1>1. wk'[w].msg = Nobody /\ \A v \in Workers \ {w} : wk'[v].msg = wk[v].msg
  BY DropMessages DEF Stepping
<1>2. w \notin HeldBy(p)' BY <1>1 DEF HeldBy
<1>3. w \in HeldBy(p) <=> PortOf(m) = p BY DEF HeldBy
<1>4. \A v \in Workers \ {w} : v \in HeldBy(p)' <=> v \in HeldBy(p) BY <1>1, HeldNext
<1>5. HeldBy(p) \subseteq Workers /\ HeldBy(p)' \subseteq Workers BY DEF HeldBy
<1>6. HeldBy(p)' = HeldBy(p) \ {w} BY <1>2, <1>4, <1>5
<1>7. IsFiniteSet(HeldBy(p)) /\ Workings(p) \in Nat BY CountNats DEF Stepping
<1>8. Cardinality(HeldBy(p) \ {w}) = IF w \in HeldBy(p) THEN Cardinality(HeldBy(p)) - 1
                                                         ELSE Cardinality(HeldBy(p))
  BY <1>7, FS_RemoveElement
<1>9. CASE PortOf(m) = p BY <1>3, <1>6, <1>7, <1>8, <1>9 DEF Workings
<1>10. CASE PortOf(m) # p BY <1>3, <1>6, <1>7, <1>8, <1>10 DEF Workings
<1> QED BY <1>9, <1>10

SameMessages == \A v \in Workers : wk'[v].msg = wk[v].msg
SameFrames == \A c \in Calls : call'[c].port = call[c].port /\ (InFrame(c)' <=> InFrame(c))

LEMMA UsersSame ==
    ASSUME SameFrames, NEW p
    PROVE  Users(p)' = Users(p)
<1>1. FramesOn(p)' = FramesOn(p) BY DEF FramesOn, Framed, SameFrames, InFrame
<1> QED BY <1>1 DEF Users

LEMMA CallSameFrames ==
    ASSUME UNCHANGED call
    PROVE  SameFrames
BY DEF SameFrames, InFrame

\* Request c leaves its frame.
Leaves(c) ==
    /\ InFrame(c) /\ ~InFrame(c)' /\ call'[c].port = call[c].port
    /\ \A d \in Calls \ {c} : call'[d] = call[d]

LEMMA UsersLeave ==
    ASSUME Stepping, NEW c \in Calls, Leaves(c), NEW p \in Ports
    PROVE  Users(p) = Users(p)' + (IF call[c].port = p THEN 1 ELSE 0)
<1>1. c \notin FramesOn(p)' BY DEF FramesOn, Framed, Leaves, InFrame
<1>2. c \in FramesOn(p) <=> call[c].port = p BY DEF FramesOn, Framed, Leaves, InFrame
<1>3. \A d \in Calls \ {c} : d \in FramesOn(p)' <=> d \in FramesOn(p) BY DEF FramesOn, Framed, Leaves
<1>4. FramesOn(p) \subseteq Calls /\ FramesOn(p)' \subseteq Calls BY DEF FramesOn, Framed
<1>5. FramesOn(p)' = FramesOn(p) \ {c} BY <1>1, <1>3, <1>4
<1>6. IsFiniteSet(FramesOn(p)) /\ Users(p) \in Nat BY CountNats DEF Stepping
<1>7. Cardinality(FramesOn(p) \ {c}) = IF c \in FramesOn(p) THEN Cardinality(FramesOn(p)) - 1
                                                            ELSE Cardinality(FramesOn(p))
  BY <1>6, FS_RemoveElement
<1>8. CASE call[c].port = p BY <1>2, <1>5, <1>6, <1>7, <1>8 DEF Users
<1>9. CASE call[c].port # p BY <1>2, <1>5, <1>6, <1>7, <1>9 DEF Users
<1> QED BY <1>8, <1>9

\* Request c is issued, to port q if it waits.
LEMMA UsersIssue ==
    ASSUME Stepping, NEW c \in Calls, call[c].at = "new", NEW q, NEW a \in {"waiting", "done"}, NEW s,
           call' = [call EXCEPT ![c] = [at |-> a, port |-> q, st |-> s, by |-> NoPort]], NEW p \in Ports
    PROVE  Users(p)' = Users(p) + (IF a = "waiting" /\ q = p THEN 1 ELSE 0)
<1>1. /\ call'[c].at = a /\ call'[c].port = q /\ \A d \in Calls \ {c} : call'[d] = call[d]
  BY Types DEF Stepping, CallTypes
<1>2. c \notin FramesOn(p) BY DEF FramesOn, Framed
<1>3. c \in FramesOn(p)' <=> a = "waiting" /\ q = p BY <1>1 DEF FramesOn, Framed
<1>4. \A d \in Calls \ {c} : d \in FramesOn(p)' <=> d \in FramesOn(p) BY <1>1 DEF FramesOn, Framed
<1>5. FramesOn(p) \subseteq Calls /\ FramesOn(p)' \subseteq Calls BY DEF FramesOn, Framed
<1>6. IsFiniteSet(FramesOn(p)) /\ Users(p) \in Nat BY CountNats DEF Stepping
<1>7. CASE a = "waiting" /\ q = p
  <2>1. FramesOn(p)' = FramesOn(p) \cup {c} BY <1>3, <1>4, <1>5, <1>7
  <2>2. Cardinality(FramesOn(p) \cup {c}) = Cardinality(FramesOn(p)) + 1 BY <1>2, <1>6, FS_AddElement
  <2> QED BY <1>7, <2>1, <2>2 DEF Users
<1>8. CASE ~(a = "waiting" /\ q = p)
  <2>1. FramesOn(p)' = FramesOn(p) BY <1>2, <1>3, <1>4, <1>5, <1>8
  <2> QED BY <1>6, <1>8, <2>1 DEF Users
<1> QED BY <1>7, <1>8

LEMMA AttachedSame ==
    ASSUME UNCHANGED <<gen, open>>, NEW p
    PROVE  Attached(p)' = Attached(p)
BY DEF Attached, IsOpen

\* The references change with what is counted.
LEMMA CountBy ==
    ASSUME Stepping,
           \A p \in Ports :
             refs'[p] - refs[p] =
               (Attached(p)' + Users(p)' + InQueue(p)' + InSigRing(p)' + Workings(p)')
               - (Attached(p) + Users(p) + InQueue(p) + InSigRing(p) + Workings(p))
    PROVE  CountInv'
<1>1. ASSUME NEW p \in Ports PROVE CountAt(p)'
  <2>1. /\ Users(p) \in Nat /\ Workings(p) \in Nat /\ Attached(p) \in {0, 1} /\ refs[p] \in Int
        /\ InQueue(p) \in Nat /\ InSigRing(p) \in Nat
    BY CountNats DEF Stepping
  <2>2. /\ Users(p)' \in Nat /\ Workings(p)' \in Nat /\ Attached(p)' \in {0, 1} /\ refs'[p] \in Int
        /\ InQueue(p)' \in Nat /\ InSigRing(p)' \in Nat
    BY CountNatsNext DEF Stepping
  <2>3. refs[p] = Attached(p) + Users(p) + InQueue(p) + InSigRing(p) + Workings(p)
    BY DEF Stepping, CountInv, CountAt
  <2>4. refs'[p] = Attached(p)' + Users(p)' + InQueue(p)' + InSigRing(p)' + Workings(p)'
    BY <2>1, <2>2, <2>3
  <2> QED BY <2>4 DEF CountAt
<1> QED BY <1>1 DEF CountInv

LEMMA CountKept ==
    ASSUME Stepping, UNCHANGED <<refs, gen, open, queue, sigRing>>, SameMessages, SameFrames
    PROVE  CountInv'
<1>1. ASSUME NEW p \in Ports
      PROVE  /\ Attached(p)' = Attached(p) /\ Users(p)' = Users(p) /\ InQueue(p)' = InQueue(p)
             /\ InSigRing(p)' = InSigRing(p) /\ Workings(p)' = Workings(p) /\ refs'[p] = refs[p]
  BY AttachedSame, UsersSame, QueueCounts, RingCounts, WorkingsSame DEF SameMessages
<1>2. \A p \in Ports : CountAt(p)' BY <1>1 DEF Stepping, CountInv, CountAt
<1> QED BY <1>2 DEF CountInv

LEMMA CountOpens ==
    ASSUME Stepping, NEW t, NEW s, Opens(t, s)
    PROVE  CountInv'
<1> PICK n : n = <<s, gen[s] + 1>> OBVIOUS
<1>1. /\ UNCHANGED <<call, queue, wk, sigRing, sig>> /\ n \in Ports
      /\ refs' = [refs EXCEPT ![n] = 1]
  BY DEF Opens
<1>2. /\ \A p : Made(p) => p # n
      /\ \A p : IsOpen(p) => IsOpen(p)'
      /\ \A p : IsOpen(p)' => IsOpen(p) \/ p = n
      /\ IsOpen(n)'
  BY OpensPort DEF Stepping
<1>3. \A p \in Ports : refs'[p] = IF p = n THEN 1 ELSE refs[p]
  BY <1>1, Types DEF Stepping, PortTypes
<1>4. ASSUME NEW p \in Ports
      PROVE  /\ Users(p)' = Users(p) /\ InQueue(p)' = InQueue(p)
             /\ InSigRing(p)' = InSigRing(p) /\ Workings(p)' = Workings(p)
  BY <1>1, UsersSame, CallSameFrames, QueueCounts, RingCounts, WorkingsSame
<1>5. ASSUME NEW p \in Ports, p # n PROVE CountAt(p)'
  <2>1. Attached(p)' = Attached(p) BY <1>2, <1>5 DEF Attached
  <2> QED BY <1>3, <1>4, <1>5, <2>1 DEF Stepping, CountInv, CountAt
<1>6. CountAt(n)'
  <2>1. Attached(n)' = 1 BY <1>2 DEF Attached
  <2>2. Users(n) = 0
    <3>1. FramesOn(n) = {}
      BY <1>2 DEF FramesOn, Stepping, CarryInv, FramedMade
    <3> QED BY <3>1, FS_EmptySet DEF Users
  <2>3. Workings(n) = 0
    <3>1. HeldBy(n) = {} BY <1>2 DEF HeldBy, Stepping, CarryInv
    <3> QED BY <3>1, FS_EmptySet DEF Workings
  <2>4. InQueue(n) = 0
    <3>1. {i \in 1 .. Len(queue) : PortOf(queue[i]) = n} = {} BY <1>2 DEF Stepping, CarryInv
    <3> QED BY <3>1, FS_EmptySet DEF InQueue
  <2>5. InSigRing(n) = 0
    <3>1. {i \in 1 .. Len(sigRing) : PortOf(sigRing[i]) = n} = {} BY <1>2 DEF Stepping, CarryInv
    <3> QED BY <3>1, FS_EmptySet DEF InSigRing
  <2>6. refs'[n] = 1 BY <1>1, <1>3
  <2> QED BY <1>1, <1>4, <2>1, <2>2, <2>3, <2>4, <2>5, <2>6 DEF CountAt
<1> QED BY <1>5, <1>6 DEF CountInv

LEMMA CountCloses ==
    ASSUME Stepping, CloseEnds
    PROVE  CountInv'
<1>1. UNCHANGED <<call, queue, wk, sigRing, sig>> /\ refs' = [refs EXCEPT ![shutting] = @ - 1]
  BY DEF CloseEnds
<1>2. \A p : IsOpen(p)' <=> IsOpen(p) /\ p # shutting BY EndsPort DEF Stepping, PortInv
<1>3. IsOpen(shutting) /\ shutting \in Ports BY DEF Stepping, PortInv, ShutInv, CloseEnds, IsOpen
<1>4. \A p \in Ports : refs[p] \in Int /\ refs'[p] = IF p = shutting THEN refs[p] - 1 ELSE refs[p]
  BY <1>1, <1>3, Types DEF Stepping, PortTypes
<1>5. ASSUME NEW p \in Ports
      PROVE  /\ Users(p)' = Users(p) /\ InQueue(p)' = InQueue(p)
             /\ InSigRing(p)' = InSigRing(p) /\ Workings(p)' = Workings(p)
             /\ refs'[p] - refs[p] = Attached(p)' - Attached(p)
  <2>1. /\ Users(p)' = Users(p) /\ InQueue(p)' = InQueue(p)
        /\ InSigRing(p)' = InSigRing(p) /\ Workings(p)' = Workings(p)
    BY <1>1, UsersSame, CallSameFrames, QueueCounts, RingCounts, WorkingsSame
  <2>2. CASE p = shutting
    <3>1. Attached(p) = 1 /\ Attached(p)' = 0 BY <1>2, <1>3, <2>2 DEF Attached
    <3> QED BY <1>4, <2>1, <2>2, <3>1
  <2>3. CASE p # shutting
    <3>1. Attached(p)' = Attached(p) /\ Attached(p) \in {0, 1} BY <1>2, <2>3 DEF Attached
    <3> QED BY <1>4, <2>1, <2>3, <3>1
  <2> QED BY <2>2, <2>3
<1>6. ASSUME NEW p \in Ports
      PROVE  refs'[p] - refs[p] =
               (Attached(p)' + Users(p)' + InQueue(p)' + InSigRing(p)' + Workings(p)')
               - (Attached(p) + Users(p) + InQueue(p) + InSigRing(p) + Workings(p))
  <2>1. /\ Users(p) \in Nat /\ Workings(p) \in Nat /\ Attached(p) \in {0, 1}
        /\ InQueue(p) \in Nat /\ InSigRing(p) \in Nat /\ Attached(p)' \in {0, 1}
    BY CountNats, CountNatsNext DEF Stepping
  <2> QED BY <1>5, <2>1
<1> QED BY <1>6, CountBy

LEMMA CountEnds ==
    ASSUME Stepping, NEW F, F \subseteq Waiting, NEW r \in Ports \cup {NoPort},
           EndCalls(F, "ended", r), UNCHANGED <<refs, gen, open, queue, sigRing, wk>>
    PROVE  CountInv'
<1>1. F \subseteq Calls /\ CallTypes BY WaitingCalls, Types DEF Stepping
<1>e. Ended(F, "ended", r) BY <1>1, EndCallsFields
<1>2. ASSUME NEW c \in Calls PROVE call'[c].port = call[c].port /\ (InFrame(c)' <=> InFrame(c))
  <2>1. c \notin F => call'[c] = call[c] BY <1>e DEF Ended
  <2>2. c \in F => call'[c].at = "ended" /\ call'[c].port = call[c].port BY <1>e DEF Ended
  <2>3. c \in F => call[c].at = "waiting" BY DEF Waiting
  <2> QED BY <2>1, <2>2, <2>3 DEF InFrame
<1>3. SameFrames BY <1>2 DEF SameFrames
<1>4. SameMessages BY DEF SameMessages
<1> QED BY <1>3, <1>4, CountKept

LEMMA CountLeaves ==
    ASSUME Stepping, NEW c \in Calls, Leaves(c), Unreferenced(c), UNCHANGED <<gen, open, queue, sigRing, wk>>
    PROVE  CountInv'
<1> PICK q : q = call[c].port OBVIOUS
<1>1. ASSUME NEW p \in Ports
      PROVE  refs'[p] - refs[p] =
               (Attached(p)' + Users(p)' + InQueue(p)' + InSigRing(p)' + Workings(p)')
               - (Attached(p) + Users(p) + InQueue(p) + InSigRing(p) + Workings(p))
  <2>1. /\ Users(p) \in Nat /\ Workings(p) \in Nat /\ Attached(p) \in {0, 1} /\ refs[p] \in Int
        /\ InQueue(p) \in Nat /\ InSigRing(p) \in Nat /\ Users(p)' \in Nat
    BY CountNats, CountNatsNext DEF Stepping
  <2>2. /\ Attached(p)' = Attached(p) /\ InQueue(p)' = InQueue(p)
        /\ InSigRing(p)' = InSigRing(p) /\ Workings(p)' = Workings(p)
    BY AttachedSame, QueueCounts, RingCounts, WorkingsSame
  <2>3. Users(p) = Users(p)' + (IF q = p THEN 1 ELSE 0) BY UsersLeave
  <2>4. refs'[p] = refs[p] - (IF q = p THEN 1 ELSE 0)
    <3>1. refs' = [refs EXCEPT ![q] = @ - 1] BY DEF Unreferenced
    <3> QED BY <2>1, <3>1, Types DEF Stepping, PortTypes
  <2> QED BY <2>1, <2>2, <2>3, <2>4
<1> QED BY <1>1, CountBy

LEMMA CountCall ==
    ASSUME Stepping, NEW c \in Calls, ExtCall(c)
    PROVE  CountInv'
<1>i. PICK q \in Ports \cup {NoPort}, a \in {"waiting", "done"}, s \in {"none", "queued"} :
         IssuedAs(c, q, a, s)
  BY Issued DEF Stepping
<1>1. /\ call' = [call EXCEPT ![c] = [at |-> a, port |-> q, st |-> s, by |-> NoPort]]
      /\ \/ /\ a = "done" /\ s = "none" /\ UNCHANGED <<refs, queue, invoked>>
         \/ /\ a = "waiting" /\ s = "queued" /\ q # NoPort
            /\ refs' = [refs EXCEPT ![q] = @ + 2] /\ queue' = Append(queue, c)
            /\ UNCHANGED invoked
         \/ /\ a = "waiting" /\ s = "none" /\ q # NoPort
            /\ refs' = [refs EXCEPT ![q] = @ + 1] /\ Invoke({c}) /\ UNCHANGED queue
  BY <1>i DEF IssuedAs
<1>2. call[c].at = "new" /\ UNCHANGED <<gen, open, wk, sigRing, sig>> BY DEF ExtCall
<1>3. PortOf(c)' = q /\ c \in Messages BY <1>1, Types DEF PortOf, Stepping, CallTypes, Messages
<1>4. ASSUME NEW p \in Ports
      PROVE  refs'[p] - refs[p] =
               (Attached(p)' + Users(p)' + InQueue(p)' + InSigRing(p)' + Workings(p)')
               - (Attached(p) + Users(p) + InQueue(p) + InSigRing(p) + Workings(p))
  <2>1. /\ Users(p) \in Nat /\ Workings(p) \in Nat /\ Attached(p) \in {0, 1} /\ refs[p] \in Int
        /\ InQueue(p) \in Nat /\ InSigRing(p) \in Nat
    BY CountNats DEF Stepping
  <2>2. /\ Attached(p)' = Attached(p) /\ InSigRing(p)' = InSigRing(p) /\ Workings(p)' = Workings(p)
    BY <1>2, AttachedSame, RingCounts, WorkingsSame
  <2>3. Users(p)' = Users(p) + (IF a = "waiting" /\ q = p THEN 1 ELSE 0) BY <1>1, <1>2, UsersIssue
  <2>4. refs \in [Ports -> Int] BY Types DEF Stepping, PortTypes
  <2>5. CASE a = "done" /\ UNCHANGED <<refs, queue>>
    <3>1. InQueue(p)' = InQueue(p) BY <2>5, QueueCounts
    <3> QED BY <2>1, <2>2, <2>3, <2>5, <3>1
  <2>6. CASE a = "waiting" /\ refs' = [refs EXCEPT ![q] = @ + 2] /\ queue' = Append(queue, c)
    <3>1. InQueue(p)' = InQueue(p) + (IF q = p THEN 1 ELSE 0) BY <1>3, <2>6, QueueCounts
    <3>2. refs'[p] = refs[p] + (IF q = p THEN 2 ELSE 0) BY <2>1, <2>4, <2>6
    <3>3. CASE q = p
      <4>1. /\ InQueue(p)' = InQueue(p) + 1 /\ refs'[p] = refs[p] + 2
            /\ Users(p)' = Users(p) + 1
        BY <2>3, <2>6, <3>1, <3>2, <3>3
      <4> QED BY <2>1, <2>2, <4>1
    <3>4. CASE q # p
      <4>1. InQueue(p)' = InQueue(p) /\ refs'[p] = refs[p] /\ Users(p)' = Users(p)
        BY <2>1, <2>3, <2>6, <3>1, <3>2, <3>4
      <4> QED BY <2>1, <2>2, <4>1
    <3> QED BY <3>3, <3>4
  <2>7. CASE a = "waiting" /\ refs' = [refs EXCEPT ![q] = @ + 1] /\ UNCHANGED queue
    <3>1. InQueue(p)' = InQueue(p) BY <2>7, QueueCounts
    <3>2. refs'[p] = refs[p] + (IF q = p THEN 1 ELSE 0) BY <2>1, <2>4, <2>7
    <3> QED BY <2>1, <2>2, <2>3, <2>7, <3>1, <3>2
  <2> QED BY <1>1, <2>5, <2>6, <2>7
<1> QED BY <1>4, CountBy

LEMMA CountSignal ==
    ASSUME Stepping, NEW g \in Signalers, ExtSignal(g)
    PROVE  CountInv'
<1>1. PICK q : /\ IsOpen(q) /\ sig' = [sig EXCEPT ![g] = q] /\ refs' = [refs EXCEPT ![q] = @ + 1]
               /\ \/ queue' = Append(queue, g) /\ UNCHANGED sigRing
                  \/ sigRing' = Append(sigRing, g) /\ UNCHANGED queue
  BY DEF ExtSignal
<1>2. UNCHANGED <<gen, open, wk, call>> BY DEF ExtSignal
<1>3. PortOf(g)' = q /\ g \in Messages BY <1>1, Types DEF PortOf, Stepping, PoolTypes, Messages
<1>4. ASSUME NEW p \in Ports
      PROVE  refs'[p] - refs[p] =
               (Attached(p)' + Users(p)' + InQueue(p)' + InSigRing(p)' + Workings(p)')
               - (Attached(p) + Users(p) + InQueue(p) + InSigRing(p) + Workings(p))
  <2>1. /\ Users(p) \in Nat /\ Workings(p) \in Nat /\ Attached(p) \in {0, 1} /\ refs[p] \in Int
        /\ InQueue(p) \in Nat /\ InSigRing(p) \in Nat
    BY CountNats DEF Stepping
  <2>2. /\ Attached(p)' = Attached(p) /\ Users(p)' = Users(p) /\ Workings(p)' = Workings(p)
    BY <1>2, AttachedSame, UsersSame, CallSameFrames, WorkingsSame
  <2>3. refs'[p] = refs[p] + (IF q = p THEN 1 ELSE 0)
    BY <1>1, <2>1, Types DEF Stepping, PortTypes
  <2>4. CASE queue' = Append(queue, g) /\ UNCHANGED sigRing
    <3>1. InQueue(p)' = InQueue(p) + (IF q = p THEN 1 ELSE 0) /\ InSigRing(p)' = InSigRing(p)
      BY <1>3, <2>4, QueueCounts, RingCounts
    <3> QED BY <2>1, <2>2, <2>3, <3>1
  <2>5. CASE sigRing' = Append(sigRing, g) /\ UNCHANGED queue
    <3>1. InSigRing(p)' = InSigRing(p) + (IF q = p THEN 1 ELSE 0) /\ InQueue(p)' = InQueue(p)
      BY <1>3, <2>5, QueueCounts, RingCounts
    <3> QED BY <2>1, <2>2, <2>3, <3>1
  <2> QED BY <1>1, <2>4, <2>5
<1> QED BY <1>4, CountBy

LEMMA CountSigPoll ==
    ASSUME Stepping, SigPoll
    PROVE  CountInv'
<1> PICK q : q = sig[Head(sigRing)] OBVIOUS
<1>1. /\ sigRing # <<>> /\ sigRing' = Tail(sigRing) /\ refs' = [refs EXCEPT ![q] = @ - 1]
      /\ UNCHANGED <<gen, open, queue, wk, call>>
  BY DEF SigPoll
<1>2. ASSUME NEW p \in Ports
      PROVE  refs'[p] - refs[p] =
               (Attached(p)' + Users(p)' + InQueue(p)' + InSigRing(p)' + Workings(p)')
               - (Attached(p) + Users(p) + InQueue(p) + InSigRing(p) + Workings(p))
  <2>1. /\ Users(p) \in Nat /\ Workings(p) \in Nat /\ Attached(p) \in {0, 1} /\ refs[p] \in Int
        /\ InQueue(p) \in Nat /\ InSigRing(p) \in Nat /\ InSigRing(p)' \in Nat
    BY CountNats, CountNatsNext DEF Stepping
  <2>2. /\ Attached(p)' = Attached(p) /\ Users(p)' = Users(p) /\ InQueue(p)' = InQueue(p)
        /\ Workings(p)' = Workings(p)
    BY <1>1, AttachedSame, UsersSame, CallSameFrames, QueueCounts, WorkingsSame
  <2>3. refs'[p] = refs[p] - (IF q = p THEN 1 ELSE 0)
    BY <1>1, <2>1, Types DEF Stepping, PortTypes
  <2>4. InSigRing(p) = InSigRing(p)' + (IF q = p THEN 1 ELSE 0) BY <1>1, RingCounts
  <2> QED BY <2>1, <2>2, <2>3, <2>4
<1> QED BY <1>2, CountBy

LEMMA CountTake ==
    ASSUME Stepping, NEW w \in Workers, TakeMessage(w)
    PROVE  CountInv'
<1>1. queue # <<>> /\ queue' = Tail(queue) /\ UNCHANGED <<refs, gen, open, sigRing, call>>
  BY DEF TakeMessage
<1>2. ASSUME NEW p \in Ports
      PROVE  refs'[p] - refs[p] =
               (Attached(p)' + Users(p)' + InQueue(p)' + InSigRing(p)' + Workings(p)')
               - (Attached(p) + Users(p) + InQueue(p) + InSigRing(p) + Workings(p))
  <2>1. /\ Users(p) \in Nat /\ Workings(p) \in Nat /\ Attached(p) \in {0, 1} /\ refs[p] \in Int
        /\ InQueue(p) \in Nat /\ InSigRing(p) \in Nat /\ InQueue(p)' \in Nat
    BY CountNats, CountNatsNext DEF Stepping
  <2>2. /\ Attached(p)' = Attached(p) /\ Users(p)' = Users(p) /\ InSigRing(p)' = InSigRing(p)
    BY <1>1, AttachedSame, UsersSame, CallSameFrames, RingCounts
  <2>3. InQueue(p) = InQueue(p)' + (IF PortOf(Head(queue)) = p THEN 1 ELSE 0) BY <1>1, QueueCounts
  <2>4. Workings(p)' = Workings(p) + (IF PortOf(Head(queue)) = p THEN 1 ELSE 0) BY WorkingsTake
  <2> PICK u \in Nat : u = Users(p) BY <2>1
  <2> PICK a \in {0, 1} : a = Attached(p) BY <2>1
  <2> PICK r \in Nat : r = InSigRing(p) BY <2>1
  <2> PICK n \in Nat : n = InQueue(p)' BY <2>1
  <2> PICK k \in Nat : k = Workings(p) BY <2>1
  <2> PICK x \in {0, 1} : x = IF PortOf(Head(queue)) = p THEN 1 ELSE 0 OBVIOUS
  <2>5. refs'[p] - refs[p] = 0 BY <1>1, <2>1
  <2>6. InQueue(p) = n + x /\ Workings(p)' = k + x BY <2>3, <2>4
  <2>7. (a + u + n + r + (k + x)) - (a + u + (n + x) + r + k) = 0 OBVIOUS
  <2> QED BY <2>2, <2>5, <2>6, <2>7
<1> QED BY <1>2, CountBy

LEMMA CountDrop ==
    ASSUME Stepping, NEW w \in Workers, NEW m, m = wk[w].msg, wk[w].at # "idle", Drop(w, m),
           UNCHANGED <<gen, open, queue, sigRing, call>>
    PROVE  CountInv'
<1>1. m # Nobody BY Types DEF Stepping, PoolTypes
<1> PICK q : q = PortOf(m) OBVIOUS
<1>2. ASSUME NEW p \in Ports
      PROVE  refs'[p] - refs[p] =
               (Attached(p)' + Users(p)' + InQueue(p)' + InSigRing(p)' + Workings(p)')
               - (Attached(p) + Users(p) + InQueue(p) + InSigRing(p) + Workings(p))
  <2>1. /\ Users(p) \in Nat /\ Workings(p) \in Nat /\ Attached(p) \in {0, 1} /\ refs[p] \in Int
        /\ InQueue(p) \in Nat /\ InSigRing(p) \in Nat /\ Workings(p)' \in Nat
    BY CountNats, CountNatsNext DEF Stepping
  <2>2. /\ Attached(p)' = Attached(p) /\ Users(p)' = Users(p) /\ InSigRing(p)' = InSigRing(p)
        /\ InQueue(p)' = InQueue(p)
    BY AttachedSame, UsersSame, CallSameFrames, RingCounts, QueueCounts
  <2>3. Workings(p) = Workings(p)' + (IF q = p THEN 1 ELSE 0) BY <1>1, WorkingsDrop
  <2>4. refs'[p] = refs[p] - (IF q = p THEN 1 ELSE 0)
    <3>1. refs' = [refs EXCEPT ![q] = @ - 1] BY DEF Drop
    <3> QED BY <2>1, <3>1, Types DEF Stepping, PortTypes
  <2> QED BY <2>1, <2>2, <2>3, <2>4
<1> QED BY <1>2, CountBy

LEMMA CountWorker ==
    ASSUME Stepping, NEW w \in Workers, Worker(w)
    PROVE  CountInv'
<1> PICK m : m = wk[w].msg OBVIOUS
<1>a. wk \in [Workers -> [at : {"idle", "taken", "open", "invoking"}, msg : Messages \cup {Nobody}]]
  BY Types DEF Stepping, PoolTypes
<1>b. \A a : wk' = [wk EXCEPT ![w].at = a] => SameMessages BY <1>a DEF SameMessages
<1>c. UNCHANGED call => SameFrames BY CallSameFrames
<1>1. CASE SeeClosed(w)
  <2>1. /\ wk[w].at = "taken" /\ UNCHANGED <<gen, open, queue, sigRing, call>>
        /\ \/ Drop(w, m)
           \/ wk' = [wk EXCEPT ![w].at = "open"] /\ UNCHANGED refs
    BY <1>1 DEF SeeClosed
  <2> QED BY <1>b, <1>c, <2>1, CountDrop, CountKept
<1>2. CASE StartInvoke(w)
  <2>1. UNCHANGED <<gen, open, queue, sigRing>> BY <1>2 DEF StartInvoke
  <2>2. CASE wk' = [wk EXCEPT ![w].at = "invoking"] /\ UNCHANGED <<refs, call>>
    BY <1>b, <1>c, <2>1, <2>2, CountKept
  <2>3. CASE /\ wk' = [wk EXCEPT ![w].at = "invoking"] /\ UNCHANGED refs
             /\ m \in Calls /\ call' = [call EXCEPT ![m].st = "running"]
    <3>1. SameFrames BY <2>3, StartFields DEF SameFrames, InFrame, Stepping
    <3> QED BY <1>b, <2>1, <2>3, <3>1, CountKept
  <2>4. CASE UNCHANGED call /\ Drop(w, m) /\ wk[w].at = "open" BY <2>1, <2>4, CountDrop
  <2> QED BY <1>2, <2>2, <2>3, <2>4, StartCases DEF Stepping
<1>3. CASE EndInvoke(w)
  <2>1. wk[w].at = "invoking" /\ Drop(w, m) /\ UNCHANGED <<gen, open, queue, sigRing, call>>
    BY <1>3 DEF EndInvoke
  <2> QED BY <2>1, CountDrop
<1> QED BY <1>1, <1>2, <1>3, CountTake DEF Worker

LEMMA CountStops ==
    ASSUME Stepping, StopPool \/ StopEnds
    PROVE  CountInv'
<1>1. UNCHANGED <<gen, open, wk, call>> BY DEF StopPool, StopEnds
<1>2. ASSUME NEW p \in Ports
      PROVE  refs'[p] - refs[p] =
               (Attached(p)' + Users(p)' + InQueue(p)' + InSigRing(p)' + Workings(p)')
               - (Attached(p) + Users(p) + InQueue(p) + InSigRing(p) + Workings(p))
  <2>1. /\ Users(p) \in Nat /\ Workings(p) \in Nat /\ Attached(p) \in {0, 1} /\ refs[p] \in Int
        /\ InQueue(p) \in Nat /\ InSigRing(p) \in Nat
    BY CountNats DEF Stepping
  <2>2. /\ Attached(p)' = Attached(p) /\ Users(p)' = Users(p) /\ Workings(p)' = Workings(p)
    BY <1>1, AttachedSame, UsersSame, CallSameFrames, WorkingsSame
  <2>3. CASE StopPool
    <3>1. queue' = <<>> /\ UNCHANGED sigRing /\ refs'[p] = refs[p] - InQueue(p) BY <2>3 DEF StopPool
    <3>2. InQueue(p)' = 0 /\ InSigRing(p)' = InSigRing(p) BY <3>1, QueueCounts, RingCounts
    <3> QED BY <2>1, <2>2, <3>1, <3>2
  <2>4. CASE StopEnds
    <3>1. sigRing' = <<>> /\ UNCHANGED queue /\ refs'[p] = refs[p] - InSigRing(p) BY <2>4 DEF StopEnds
    <3>2. InSigRing(p)' = 0 /\ InQueue(p)' = InQueue(p) BY <3>1, QueueCounts, RingCounts
    <3> QED BY <2>1, <2>2, <3>1, <3>2
  <2> QED BY <2>3, <2>4
<1> QED BY <1>2, CountBy

LEMMA CountStep ==
    ASSUME BaseInv, PortInv, CallInv, CarryInv, CountInv, [Next]_vars
    PROVE  CountInv'
<1>a. Stepping BY BaseStep DEF Stepping
<1>b. UNCHANGED wk => SameMessages BY DEF SameMessages
<1>c. UNCHANGED call => SameFrames BY CallSameFrames
<1>0. ASSUME UNCHANGED <<refs, gen, open, queue, sigRing, wk, call>> PROVE CountInv'
  BY <1>0, <1>a, <1>b, <1>c, CountKept
<1>1. ASSUME NEW t \in Sessions, Session(t) PROVE CountInv'
  <2>1. CASE OpenPort(t)
    <3>1. ASSUME NoSlot(t) PROVE CountInv' BY <1>0, <3>1 DEF NoSlot
    <3> QED BY <1>a, <2>1, <3>1, OpenCases, CountOpens
  <2>2. CASE Attach(t) \/ Provide(t) \/ ClosePort(t) \/ Detach(t) \/ CloseCtx(t) \/ PostCtl(t) \/ Returned(t)
    BY <1>0, <2>2 DEF Attach, Provide, ClosePort, Detach, CloseCtx, PostCtl, Returned
  <2> QED BY <1>1, <2>1, <2>2 DEF Session
<1>2. ASSUME NEW c \in Calls, NEW p \in Ports, ExtReply(c, p) PROVE CountInv' BY <1>0, <1>2 DEF ExtReply
<1>3. CASE Bridge
  <2>1. CASE CloseWithdraws
    <3> PICK q : q = <<Least(scan), gen[Least(scan)]>> OBVIOUS
    <3> PICK F : F = {c \in Waiting : call[c].port = q} OBVIOUS
    <3>1. F \subseteq Waiting OBVIOUS
    <3>2. /\ UNCHANGED <<refs, gen, open, queue, sigRing, wk>>
          /\ EndCalls(F, "ended", NoPort) \/ UNCHANGED call
      BY <2>1 DEF CloseWithdraws
    <3> QED BY <1>0, <1>a, <3>1, <3>2, CountEnds
  <2>2. CASE ReplyPoll
    <3> PICK r : r = Head(replies) OBVIOUS
    <3> PICK F : F = {r.call} OBVIOUS
    <3>1. r.port \in Ports BY <2>2, HeadTypes DEF ReplyPoll, Replies
    <3>2. UNCHANGED <<refs, gen, open, queue, sigRing, wk>> BY <2>2 DEF ReplyPoll
    <3>3. CASE r.call \in Waiting /\ FromSource(r)
      <4>1. F \subseteq Waiting /\ EndCalls(F, "ended", r.port) BY <2>2, <3>3 DEF ReplyPoll
      <4> QED BY <1>a, <3>1, <3>2, <4>1, CountEnds
    <3>4. CASE ~(r.call \in Waiting /\ FromSource(r))
      <4>1. UNCHANGED call BY <2>2, <3>4 DEF ReplyPoll
      <4> QED BY <1>0, <3>2, <4>1
    <3> QED BY <3>3, <3>4
  <2>3. CASE BridgeFailsAll
    <3>1. UNCHANGED <<refs, gen, open, queue, sigRing, wk>> /\ EndCalls(Waiting, "ended", NoPort)
      BY <2>3 DEF BridgeFailsAll
    <3> QED BY <1>a, <3>1, CountEnds
  <2>4. CASE CtlPoll \/ CtlDone \/ BridgeStops \/ BridgeDown
    BY <1>0, <2>4 DEF CtlPoll, CtlDone, BridgeStops, BridgeDown
  <2> QED BY <1>3, <1>a, <2>1, <2>2, <2>3, <2>4, CountCloses, CountSigPoll DEF Bridge
<1>5. ASSUME NEW c \in Calls, Abandon(c) PROVE CountInv'
  <2>1. /\ UNCHANGED <<gen, open, queue, sigRing, wk>> /\ EndCalls({c}, "done", NoPort) /\ Unreferenced(c)
        /\ c \in Waiting
    BY <1>5 DEF Abandon
  <2> PICK F : F = {c} OBVIOUS
  <2>2. Ended(F, "done", NoPort) BY <2>1, EndCallsFields, Types
  <2>3. Leaves(c) BY <2>1, <2>2 DEF Ended, Leaves, InFrame, Waiting
  <2> QED BY <1>a, <2>1, <2>3, CountLeaves
<1>5r. ASSUME NEW c \in Calls, CallReturns(c) PROVE CountInv'
  <2>1. UNCHANGED <<gen, open, queue, sigRing, wk>> /\ Unreferenced(c) BY <1>5r DEF CallReturns
  <2>2. Leaves(c) BY <1>5r, ReturnsFields, Types DEF Leaves, InFrame
  <2> QED BY <1>a, <2>1, <2>2, CountLeaves
<1>8. CASE StopBegins BY <1>0, <1>8 DEF StopBegins
<1>10. CASE UNCHANGED vars BY <1>0, <1>10 DEF vars
<1> QED BY <1>1, <1>2, <1>3, <1>5, <1>5r, <1>8, <1>10, <1>a, CountCall, CountSignal, CountWorker, CountStops
    DEF Next, Foreign


-----------------------------------------------------------------------------
(* CtlInv: a control message that waits is in the ring or in work.         *)

ControlInv == CtlInv /\ CtlNotLost

LEMMA ControlSame ==
    ASSUME BaseInv, ControlInv, UNCHANGED <<ctl, client>>, host' = "stopped" => host = "stopped",
           \A t \in Sessions : io'[t] = "wait" <=> io[t] = "wait"
    PROVE  ControlInv'
<1>1. ctl \in Seq(Sessions) /\ \A i \in 1 .. Len(ctl) : ctl[i] \in Sessions BY Types DEF RingTypes
<1>2. CtlInv' BY <1>1 DEF ControlInv, CtlInv
<1>3. CtlNotLost' BY <1>1 DEF ControlInv, CtlNotLost
<1> QED BY <1>2, <1>3 DEF ControlInv

\* Of the steps of a session only the post itself makes it wait.
LEMMA ControlSession ==
    ASSUME BaseInv, PhaseInv, ControlInv, NEW t \in Sessions, Session(t)
    PROVE  ControlInv'
<1>a. io \in [Sessions -> {"no", "push", "wait", "done"}] BY Types DEF SessionTypes
<1>b. ctl \in Seq(Sessions) BY Types DEF RingTypes
<1>c. host' = host /\ client' = client
  BY DEF Session, Attach, OpenPort, Provide, ClosePort, Detach, CloseCtx, PostCtl, Returned
<1>0. ASSUME UNCHANGED ctl, NEW x \in {"no", "push", "done"}, io' = [io EXCEPT ![t] = x], io[t] # "wait"
      PROVE  ControlInv'
  <2>1. \A u \in Sessions : io'[u] = "wait" <=> io[u] = "wait" BY <1>0, <1>a
  <2> QED BY <1>0, <1>c, <2>1, ControlSame
<1>1. CASE UNCHANGED <<ctl, io>> BY <1>1, <1>c, ControlSame
<1>2. ASSUME UNCHANGED ctl, NEW r, Request(t, r) PROVE ControlInv'
  <2>1. io[t] = "no" /\ (io' = [io EXCEPT ![t] = "push"] \/ io' = [io EXCEPT ![t] = "done"])
    BY <1>2 DEF Request
  <2> QED BY <1>0, <1>2, <2>1
<1>3. CASE Attach(t) \/ OpenPort(t) \/ Detach(t)
  <2>1. UNCHANGED <<ctl, io>> BY <1>3, OpenCases DEF Attach, Opens, NoSlot, Detach
  <2> QED BY <1>1, <2>1
<1>4. CASE Provide(t) \/ ClosePort(t) \/ CloseCtx(t) BY <1>2, <1>4 DEF Provide, ClosePort, CloseCtx
<1>5. CASE Returned(t)
  <2>1. io[t] = "done" /\ io' = [io EXCEPT ![t] = "no"] /\ UNCHANGED ctl BY <1>5 DEF Returned
  <2> QED BY <1>0, <2>1
<1>6. CASE PostCtl(t)
  <2>1. CASE ~running
    <3>1. io[t] = "push" /\ io' = [io EXCEPT ![t] = "done"] /\ UNCHANGED ctl BY <1>6, <2>1 DEF PostCtl
    <3> QED BY <1>0, <3>1
  <2>2. CASE running
    <3>1. io[t] = "push" /\ io' = [io EXCEPT ![t] = "wait"] /\ ctl' = Append(ctl, t) BY <1>6, <2>2 DEF PostCtl
    <3>2. /\ Len(ctl) \in Nat /\ Len(ctl') = Len(ctl) + 1 /\ ctl'[Len(ctl) + 1] = t
          /\ \A i \in 1 .. Len(ctl) : ctl'[i] = ctl[i] /\ ctl[i] \in Sessions
      BY <1>b, <3>1
    <3>3. \A i \in 1 .. Len(ctl) : ctl[i] # t BY <3>1 DEF ControlInv, CtlInv
    <3>4. \A u \in Sessions : io'[u] = (IF u = t THEN "wait" ELSE io[u]) BY <1>a, <3>1
    <3>5. t # client BY <3>1 DEF ControlInv, CtlInv
    <3>6. ASSUME NEW i \in 1 .. Len(ctl') PROVE io'[ctl'[i]] = "wait" /\ ctl'[i] # client
      <4>1. CASE i \in 1 .. Len(ctl) BY <3>2, <3>4, <4>1 DEF ControlInv, CtlInv
      <4>2. CASE i = Len(ctl) + 1 BY <3>2, <3>4, <3>5, <4>2
      <4> QED BY <3>2, <4>1, <4>2
    <3>7. ASSUME NEW i \in 1 .. Len(ctl'), NEW j \in 1 .. Len(ctl'), ctl'[i] = ctl'[j] PROVE i = j
      <4>1. CASE i \in 1 .. Len(ctl) /\ j \in 1 .. Len(ctl) BY <3>2, <3>7, <4>1 DEF ControlInv, CtlInv
      <4>2. CASE i = Len(ctl) + 1 \/ j = Len(ctl) + 1 BY <3>2, <3>3, <3>7, <4>2
      <4> QED BY <3>2, <4>1, <4>2
    <3>8. client \in Sessions => io'[client] = "wait" BY <3>4 DEF ControlInv, CtlInv
    <3>9. CtlInv' BY <1>c, <3>6, <3>7, <3>8 DEF CtlInv
    <3>10. ASSUME NEW u \in Sessions, io'[u] = "wait"
           PROVE  host # "stopped" /\ (u = client \/ \E i \in 1 .. Len(ctl') : ctl'[i] = u)
      <4>1. host # "stopped" BY <2>2 DEF PhaseInv
      <4>2. CASE u = t
        <5>1. Len(ctl) + 1 \in 1 .. Len(ctl') BY <3>2
        <5> QED BY <3>2, <4>1, <4>2, <5>1
      <4>3. CASE u # t /\ u # client
        <5>1. PICK i \in 1 .. Len(ctl) : ctl[i] = u BY <3>4, <3>10, <4>3 DEF ControlInv, CtlNotLost
        <5>2. i \in 1 .. Len(ctl') /\ ctl'[i] = u BY <3>2, <5>1
        <5> QED BY <4>1, <5>2
      <4> QED BY <4>1, <4>2, <4>3
    <3>11. CtlNotLost' BY <1>c, <3>10 DEF CtlNotLost
    <3> QED BY <3>9, <3>11 DEF ControlInv
  <2> QED BY <2>1, <2>2
<1> QED BY <1>3, <1>4, <1>5, <1>6 DEF Session

\* The bridge takes the message at the head: it answers it or works on it.
LEMMA ControlPoll ==
    ASSUME BaseInv, PhaseInv, ControlInv, CtlPoll
    PROVE  ControlInv'
<1>a. io \in [Sessions -> {"no", "push", "wait", "done"}] /\ ctl \in Seq(Sessions)
  BY Types DEF SessionTypes, RingTypes
<1> PICK t : t = Head(ctl) OBVIOUS
<1>1. /\ ctl # <<>> /\ ctl' = Tail(ctl) /\ bridge # "closing" /\ host' = host
      /\ RunProvide(req[t]) \/ RunClose(req[t])
  BY DEF CtlPoll
<1>2. client = Nobody BY <1>1 DEF PhaseInv
<1>3. /\ Len(ctl) \in Nat \ {0} /\ Len(ctl') = Len(ctl) - 1 /\ ctl[1] = t /\ t \in Sessions
      /\ \A i \in 1 .. Len(ctl') : ctl'[i] = ctl[i + 1] /\ i + 1 \in 1 .. Len(ctl)
      /\ \A i \in 1 .. Len(ctl) : ctl[i] \in Sessions
  BY <1>a, <1>1
<1>4. \A i \in 1 .. Len(ctl') : ctl'[i] # t /\ ctl'[i] \in Sessions /\ io[ctl'[i]] = "wait"
  <2> SUFFICES ASSUME NEW i \in 1 .. Len(ctl')
               PROVE  ctl'[i] # t /\ ctl'[i] \in Sessions /\ io[ctl'[i]] = "wait"
      OBVIOUS
  <2>1. i + 1 # 1 /\ 1 \in 1 .. Len(ctl) BY <1>3
  <2> QED BY <1>3, <2>1 DEF ControlInv, CtlInv
<1>5. ASSUME NEW i \in 1 .. Len(ctl'), NEW j \in 1 .. Len(ctl'), ctl'[i] = ctl'[j] PROVE i = j
  <2>1. ctl[i + 1] = ctl[j + 1] /\ i + 1 \in 1 .. Len(ctl) /\ j + 1 \in 1 .. Len(ctl) BY <1>3, <1>5
  <2>2. i + 1 = j + 1 BY <2>1 DEF ControlInv, CtlInv
  <2> QED BY <2>2
<1>6. ASSUME NEW u \in Sessions \ {t}, io[u] = "wait"
      PROVE  host # "stopped" /\ \E i \in 1 .. Len(ctl') : ctl'[i] = u
  <2>1. PICK i \in 1 .. Len(ctl) : ctl[i] = u BY <1>2, <1>6 DEF ControlInv, CtlNotLost
  <2>2. i # 1 BY <1>3, <1>6, <2>1
  <2>3. i - 1 \in 1 .. Len(ctl') /\ (i - 1) + 1 = i BY <1>3, <2>1, <2>2
  <2>4. ctl'[i - 1] = u BY <1>3, <2>1, <2>3
  <2> QED BY <1>6, <2>3, <2>4 DEF ControlInv, CtlNotLost
<1>7. ASSUME UNCHANGED client, NEW x, Answer(t, x) PROVE ControlInv'
  <2>1. \A u \in Sessions : io'[u] = (IF u = t THEN "done" ELSE io[u]) BY <1>a, <1>7 DEF Answer
  <2>2. CtlInv' BY <1>2, <1>4, <1>5, <1>7, <2>1 DEF CtlInv
  <2>3. CtlNotLost' BY <1>1, <1>6, <2>1 DEF CtlNotLost
  <2> QED BY <2>2, <2>3 DEF ControlInv
<1>8. ASSUME UNCHANGED io, client' = t PROVE ControlInv'
  <2>1. io[t] = "wait"
    <3>1. 1 \in 1 .. Len(ctl) BY <1>3
    <3> QED BY <1>3, <3>1 DEF ControlInv, CtlInv
  <2>2. CtlInv' BY <1>4, <1>5, <1>8, <2>1 DEF CtlInv
  <2>3. host # "stopped" BY <1>3, <2>1 DEF ControlInv, CtlNotLost
  <2>4. CtlNotLost' BY <1>1, <1>6, <1>8, <2>3 DEF CtlNotLost
  <2> QED BY <2>2, <2>4 DEF ControlInv
<1>9. CASE RunProvide(req[t])
  <2>1. UNCHANGED client /\ \E x : Answer(t, x) BY <1>9 DEF RunProvide
  <2> QED BY <1>7, <2>1
<1>10. CASE RunClose(req[t])
  <2>1. \/ UNCHANGED client /\ \E x : Answer(t, x)
        \/ client' = t /\ UNCHANGED io
    BY <1>10 DEF RunClose
  <2> QED BY <1>7, <1>8, <2>1
<1> QED BY <1>1, <1>9, <1>10

LEMMA ControlStep ==
    ASSUME BaseInv, PhaseInv, ControlInv, [Next]_vars
    PROVE  ControlInv'
<1>a. io \in [Sessions -> {"no", "push", "wait", "done"}] /\ ctl \in Seq(Sessions)
  BY Types DEF SessionTypes, RingTypes
<1>0. ASSUME UNCHANGED <<io, ctl, client, host>> PROVE ControlInv' BY <1>0, ControlSame
<1>2. ASSUME NEW c \in Calls, NEW p \in Ports, ExtReply(c, p) PROVE ControlInv' BY <1>0, <1>2 DEF ExtReply
<1>3. CASE Bridge
  <2>1. CASE CtlDone
    <3>1. /\ bridge = "closing" /\ client' = Nobody /\ Answer(client, "ok") /\ UNCHANGED <<ctl, host>>
      BY <2>1 DEF CtlDone
    <3>2. client \in Sessions BY <3>1, Types DEF PhaseInv, BridgeTypes
    <3>3. \A u \in Sessions : io'[u] = (IF u = client THEN "done" ELSE io[u]) BY <1>a, <3>1 DEF Answer
    <3>4. \A i \in 1 .. Len(ctl) : ctl[i] \in Sessions BY <1>a
    <3>5. CtlInv' BY <3>1, <3>3, <3>4 DEF ControlInv, CtlInv
    <3>6. CtlNotLost' BY <3>1, <3>3 DEF ControlInv, CtlNotLost
    <3> QED BY <3>5, <3>6 DEF ControlInv
  <2>2. CASE CloseWithdraws \/ CloseEnds \/ ReplyPoll \/ SigPoll \/ BridgeStops \/ BridgeFailsAll \/ BridgeDown
    BY <1>0, <2>2 DEF CloseWithdraws, CloseEnds, ReplyPoll, SigPoll, BridgeStops, BridgeFailsAll, BridgeDown
  <2> QED BY <1>3, <2>1, <2>2, ControlPoll DEF Bridge
<1>4. ASSUME NEW c \in Calls, ExtCall(c) \/ Abandon(c) \/ CallReturns(c) PROVE ControlInv' BY <1>0, <1>4 DEF ExtCall, Abandon, CallReturns
<1>6. ASSUME NEW g \in Signalers, ExtSignal(g) PROVE ControlInv' BY <1>0, <1>6 DEF ExtSignal
<1>7. ASSUME NEW w \in Workers, Worker(w) PROVE ControlInv'
  BY <1>0, <1>7 DEF Worker, TakeMessage, SeeClosed, StartInvoke, EndInvoke
<1>8. CASE StopBegins \/ StopPool
  <2>1. UNCHANGED <<ctl, client, io>> /\ host' # "stopped" BY <1>8 DEF StopBegins, StopPool
  <2> QED BY <2>1, ControlSame
<1>9. CASE StopEnds
  <2> PICK L : L = {ctl[i] : i \in 1 .. Len(ctl)} OBVIOUS
  <2>1. /\ host = "pools" /\ ctl' = <<>> /\ UNCHANGED client
        /\ io' = [t \in Sessions |-> IF t \in L THEN "done" ELSE io[t]]
    BY <1>9 DEF StopEnds
  <2>2. client = Nobody BY <2>1 DEF PhaseInv
  <2>3. ASSUME NEW t \in Sessions PROVE io'[t] # "wait"
    <3>1. CASE t \in L BY <2>1, <3>1
    <3>2. CASE t \notin L BY <2>1, <2>2, <3>2 DEF ControlInv, CtlNotLost
    <3> QED BY <3>1, <3>2
  <2>4. Len(ctl') = 0 BY <2>1
  <2>5. CtlInv' BY <2>1, <2>2, <2>4 DEF CtlInv
  <2>6. CtlNotLost' BY <2>3 DEF CtlNotLost
  <2> QED BY <2>5, <2>6 DEF ControlInv
<1>10. CASE UNCHANGED vars BY <1>0, <1>10 DEF vars
<1> QED BY <1>2, <1>3, <1>4, <1>6, <1>7, <1>8, <1>9, <1>10, ControlSession DEF Next, Foreign

-----------------------------------------------------------------------------
(* AttachInv: what a session knows of its ports.                           *)

MadePorts == {p \in Ports : Made(p)}
OpenPorts == {p \in Ports : IsOpen(p)}
Closes == {"undo", "replace", "detach"}

\* Where a session is, and what its control message says.
SessionAt(t) ==
    /\ holder = t <=> stage[t] \notin {"idle", "ctx"}
    /\ stage[t] \in {"idle", "open"} => io[t] = "no"
    /\ stage[t] \in {"idle", "open", "ctx"} => mine[t] = NoPort
    /\ stage[t] = "ctx" => io[t] # "no" /\ req[t].op = "ctx"
    /\ stage[t] \in Closes \cup {"provide"} =>
           mine[t] \in MadePorts /\ (io[t] # "no" => req[t].port = mine[t])
    /\ stage[t] = "provide" /\ io[t] # "no" => req[t].op = "provide" /\ req[t].name \in left[t]
    /\ stage[t] \in Closes /\ io[t] # "no" => req[t].op = "close"
    /\ stage[t] = "detach" => mine[t] = gPort

SessionInv ==
    /\ \A t \in Sessions : SessionAt(t)
    /\ gPort # NoPort => gPort \in MadePorts

\* While the bridge closes a port for a session, the port is closed or still to be
\* looked at; when the session is told that a port is closed, it is.
ClosedInv ==
    /\ client \in Sessions => req[client].op \in {"close", "ctx"}
    /\ client \in Sessions /\ req[client].op = "close" /\ req[client].port \in OpenPorts
         => req[client].port[1] \in scan
    /\ \A t \in Sessions :
         running /\ stage[t] \in Closes /\ io[t] = "done" => mine[t] \notin OpenPorts

\* The names a port serves: until it is shut, all that were provided.
Serves(p, N) == p \in OpenPorts /\ p # shutting => \A n \in N : source[n] = p

ServeInv ==
    /\ Serves(gPort, Names)
    /\ \A t \in Sessions : stage[t] = "provide" =>
         /\ Serves(mine[t], Names \ left[t])
         /\ io[t] = "done" /\ rc[t] = "ok" => Serves(mine[t], {req[t].name})

\* While the host runs, an open port is the attached one or in the hands of the session
\* that holds the mutex.
KnownInv ==
    running => \A p \in OpenPorts : p = gPort \/ (holder \in Sessions /\ p = mine[holder])

AttachInv == SessionInv /\ ClosedInv /\ ServeInv /\ KnownInv

LEMMA PortSets ==
    /\ OpenPorts \subseteq MadePorts /\ MadePorts \subseteq Ports
    /\ NoPort \notin MadePorts /\ NoPort \notin OpenPorts
BY OpenIsMade DEF OpenPorts, MadePorts

LEMMA SetsOpen ==
    ASSUME BaseInv, NEW t, NEW s, Opens(t, s), NEW n, n = <<s, gen[s] + 1>>
    PROVE  /\ OpenPorts' = OpenPorts \cup {n} /\ MadePorts \subseteq MadePorts'
           /\ n \notin MadePorts /\ n \in MadePorts' /\ n \in Ports
<1>1. /\ \A p : Made(p) => Made(p)' /\ p # n
      /\ \A p : IsOpen(p) => IsOpen(p)'
      /\ \A p : IsOpen(p)' => IsOpen(p) \/ p = n
      /\ IsOpen(n)' /\ Made(n)'
  BY OpensPort
<1>2. n \in Ports BY DEF Opens
<1>3. OpenPorts' = OpenPorts \cup {n} BY <1>1, <1>2 DEF OpenPorts
<1> QED BY <1>1, <1>2, <1>3 DEF MadePorts

LEMMA SetsEnd ==
    ASSUME BaseInv, PortInv, CloseEnds
    PROVE  OpenPorts' = OpenPorts \ {shutting}
BY EndsPort DEF PortInv, OpenPorts

\* A port that was opened stays so, and once closed it stays closed.
LEMMA SetsStep ==
    ASSUME BaseInv, PortInv, [Next]_vars
    PROVE  /\ MadePorts \subseteq MadePorts'
           /\ \A p \in MadePorts : p \in OpenPorts' => p \in OpenPorts
<1>0. \A p : Made(p) => Made(p)' BY MadeStep
<1>1. MadePorts \subseteq MadePorts' BY <1>0 DEF MadePorts
<1>2. CASE UNCHANGED <<gen, open>>
  <2>1. OpenPorts' = OpenPorts BY <1>2 DEF OpenPorts, IsOpen
  <2> QED BY <1>1, <2>1
<1>3. ASSUME NEW t \in Sessions, NEW s \in Slots, Opens(t, s)
      PROVE  \A p \in MadePorts : p \in OpenPorts' => p \in OpenPorts
  <2> PICK n : n = <<s, gen[s] + 1>> OBVIOUS
  <2> QED BY <1>3, SetsOpen
<1>4. CASE CloseEnds BY <1>1, <1>4, SetsEnd
<1> QED BY <1>1, <1>2, <1>3, <1>4, OpenSteps

-----------------------------------------------------------------------------
(* A step of a session leaves the other sessions alone.                    *)

Others(t) ==
    \A u \in Sessions \ {t} :
        /\ stage'[u] = stage[u] /\ io'[u] = io[u] /\ req'[u] = req[u] /\ rc'[u] = rc[u]
        /\ mine'[u] = mine[u] /\ left'[u] = left[u] /\ (holder' = u <=> holder = u)
        /\ stage[u] = "detach" => gPort' = gPort

LEMMA OthersKept ==
    ASSUME BaseInv, SessionInv, NEW t \in Sessions, Session(t)
    PROVE  Others(t) /\ UNCHANGED <<hostVars, bridgeVars, source>> /\ io[t] # "wait"
<1> USE DEF Others
<1>a. SessionTypes BY Types
<1>b. \A u \in Sessions : SessionAt(u) BY DEF SessionInv
<1>c. UNCHANGED <<hostVars, bridgeVars, source>>
  BY DEF Session, Attach, OpenPort, Provide, ClosePort, Detach, CloseCtx, PostCtl, Returned
<1>d. ASSUME NEW r, Request(t, r), UNCHANGED <<stage, mine, left, holder, gPort>> PROVE Others(t)
  BY <1>a, <1>d DEF Request, SessionTypes
<1>e. ASSUME NEW r, Request(t, r) PROVE io[t] # "wait" BY <1>e DEF Request
<1>1. CASE Attach(t)
  <2>1. io[t] # "wait" BY <1>1, <1>b DEF Attach, SessionAt
  <2> QED BY <1>a, <1>c, <1>1, <2>1 DEF Attach, SessionTypes
<1>2. CASE OpenPort(t)
  <2>1. stage[t] = "open" BY <1>2 DEF OpenPort
  <2>2. io[t] # "wait" /\ holder = t BY <2>1, <1>b DEF SessionAt
  <2>3. ASSUME NEW s, Opens(t, s) PROVE Others(t) BY <1>a, <2>3 DEF Opens, SessionTypes
  <2>4. ASSUME NoSlot(t) PROVE Others(t) BY <1>a, <2>2, <2>4 DEF NoSlot, SessionTypes
  <2> QED BY <1>2, <1>c, <2>2, <2>3, <2>4, OpenCases
<1>3. CASE Provide(t) BY <1>3, <1>c, <1>d, <1>e DEF Provide
<1>4. CASE ClosePort(t) BY <1>4, <1>c, <1>d, <1>e DEF ClosePort
<1>5. CASE Detach(t)
  <2>1. io[t] # "wait" BY <1>5, <1>b DEF Detach, SessionAt
  <2> QED BY <1>a, <1>c, <1>5, <2>1 DEF Detach, SessionTypes
<1>6. CASE CloseCtx(t)
  <2>1. Request(t, [op |-> "ctx", port |-> NoPort, name |-> Nobody]) /\ stage' = [stage EXCEPT ![t] = "ctx"]
        /\ UNCHANGED <<mine, left, holder, gPort>>
    BY <1>6 DEF CloseCtx
  <2> QED BY <1>a, <1>c, <1>e, <2>1 DEF Request, SessionTypes
<1>7. CASE PostCtl(t) BY <1>a, <1>c, <1>7 DEF PostCtl, SessionTypes
<1>8. CASE Returned(t)
  <2>1. /\ io[t] = "done" /\ io' = [io EXCEPT ![t] = "no"] /\ rc' = [rc EXCEPT ![t] = "ok"]
        /\ req' = [req EXCEPT ![t] = NoReq]
        /\ AttachFails(t) \/ NameProvided(t) \/ PortClosed(t)
    BY <1>8 DEF Returned
  <2>2. stage[t] \notin {"idle", "open"} BY <1>b, <2>1 DEF SessionAt
  <2>3. stage[t] # "ctx" => holder = t BY <1>b, <2>2 DEF SessionAt
  <2>4. \A u \in Sessions \ {t} : stage[u] = "detach" => holder = u BY <1>b DEF SessionAt
  <2>5. Leave(t) \/ \E x, p, N : Continue(t, x, p, N)
    BY <2>1 DEF AttachFails, NameProvided, PortClosed
  <2>6. gPort' = gPort \/ stage[t] \in {"provide", "detach"}
    BY <2>1 DEF AttachFails, NameProvided, PortClosed
  <2>7. \A u \in Sessions \ {t} : stage[u] = "detach" => gPort' = gPort BY <2>3, <2>4, <2>6
  <2>8. CASE Leave(t)
    <3>1. holder' = holder \/ (holder = t /\ holder' = Nobody) BY <2>3, <2>8 DEF Leave
    <3>2. \A u \in Sessions \ {t} : holder' = u <=> holder = u BY <3>1
    <3>3. /\ stage' = [stage EXCEPT ![t] = "idle"] /\ mine' = [mine EXCEPT ![t] = NoPort]
          /\ left' = [left EXCEPT ![t] = {}]
      BY <2>8 DEF Leave
    <3> QED BY <1>a, <1>c, <2>1, <2>7, <3>2, <3>3 DEF SessionTypes
  <2>9. ASSUME NEW x, NEW p, NEW N, Continue(t, x, p, N) PROVE Others(t)
    BY <1>a, <2>1, <2>7, <2>9 DEF Continue, SessionTypes
  <2> QED BY <1>c, <2>1, <2>5, <2>8, <2>9
<1> QED BY <1>1, <1>2, <1>3, <1>4, <1>5, <1>6, <1>7, <1>8 DEF Session

-----------------------------------------------------------------------------
(* SessionInv.                                                             *)

LEMMA SessionOwn ==
    ASSUME BaseInv, PortInv, SessionInv, [Next]_vars, NEW t \in Sessions, Session(t)
    PROVE  SessionAt(t)' /\ (gPort' # NoPort => gPort' \in MadePorts')
<1> USE DEF SessionAt, Closes
<1>a. SessionTypes BY Types
<1>b. SessionAt(t) /\ (gPort # NoPort => gPort \in MadePorts) BY DEF SessionInv
<1>c. MadePorts \subseteq MadePorts' BY SetsStep
<1>d. ASSUME NEW r, Request(t, r)
      PROVE  /\ io[t] = "no" /\ io'[t] \in {"push", "done"} /\ req'[t] = r
    BY <1>a, <1>d DEF Request, SessionTypes
<1>1. CASE Attach(t) BY <1>a, <1>b, <1>c, <1>1 DEF Attach, SessionTypes
<1>2. CASE OpenPort(t)
  <2>1. ASSUME NEW s, Opens(t, s) PROVE SessionAt(t)' /\ gPort' = gPort
    <3> PICK n : n = <<s, gen[s] + 1>> OBVIOUS
    <3>1. n \in MadePorts' BY <2>1, SetsOpen
    <3>2. mine' = [mine EXCEPT ![t] = n] /\ stage' = [stage EXCEPT ![t] = "provide"]
          /\ UNCHANGED <<holder, io, gPort>> /\ stage[t] = "open"
      BY <2>1 DEF Opens
    <3> QED BY <1>a, <1>b, <3>1, <3>2 DEF SessionTypes
  <2>2. ASSUME NoSlot(t) PROVE SessionAt(t)' /\ gPort' = gPort
    BY <1>a, <1>b, <2>2 DEF NoSlot, SessionTypes
  <2> QED BY <1>2, <1>b, <1>c, <2>1, <2>2, OpenCases
<1>3. CASE Provide(t)
  <2>1. PICK n \in left[t] : Request(t, [op |-> "provide", port |-> mine[t], name |-> n])
    BY <1>3 DEF Provide
  <2>2. io'[t] # "no" /\ req'[t] = [op |-> "provide", port |-> mine[t], name |-> n] BY <1>d, <2>1
  <2> QED BY <1>a, <1>b, <1>c, <1>3, <2>1, <2>2 DEF Provide
<1>4. CASE ClosePort(t)
  <2>1. io'[t] # "no" /\ req'[t] = [op |-> "close", port |-> mine[t], name |-> Nobody]
    BY <1>d, <1>4 DEF ClosePort
  <2> QED BY <1>a, <1>b, <1>c, <1>4, <2>1 DEF ClosePort
<1>5. CASE Detach(t) BY <1>a, <1>b, <1>c, <1>5 DEF Detach, SessionTypes
<1>6. CASE CloseCtx(t)
  <2>1. io'[t] # "no" /\ req'[t] = [op |-> "ctx", port |-> NoPort, name |-> Nobody]
    BY <1>d, <1>6 DEF CloseCtx
  <2> QED BY <1>a, <1>b, <1>c, <1>6, <2>1 DEF CloseCtx, SessionTypes
<1>7. CASE PostCtl(t)
  <2>1. io[t] = "push" /\ io'[t] \in {"wait", "done"} BY <1>a, <1>7 DEF PostCtl, SessionTypes
  <2> QED BY <1>b, <1>c, <1>7, <2>1 DEF PostCtl
<1>8. CASE Returned(t)
  <2>1. io[t] = "done" /\ io'[t] = "no" /\ (AttachFails(t) \/ NameProvided(t) \/ PortClosed(t))
    BY <1>a, <1>8 DEF Returned, SessionTypes
  <2>2. ASSUME Leave(t) PROVE SessionAt(t)'
    <3>1. stage'[t] = "idle" /\ mine'[t] = NoPort BY <1>a, <2>2 DEF Leave, SessionTypes
    <3>2. holder' # t BY <1>b, <2>2 DEF Leave
    <3> QED BY <2>1, <3>1, <3>2
  <2>3. ASSUME NEW x \in {"undo", "provide", "replace"}, NEW p \in MadePorts', NEW N, Continue(t, x, p, N),
               stage[t] = "provide"
        PROVE  SessionAt(t)'
    BY <1>a, <1>b, <2>1, <2>3 DEF Continue, SessionTypes
  <2>4. stage[t] = "provide" => mine[t] \in MadePorts' BY <1>b, <1>c
  <2>5. CASE AttachFails(t) BY <1>b, <1>c, <2>3, <2>4, <2>5 DEF AttachFails
  <2>6. CASE NameProvided(t)
    <3> PICK N : N = left[t] \ {req[t].name} OBVIOUS
    <3>1. stage[t] = "provide" BY <2>6 DEF NameProvided
    <3>2. CASE N # {} BY <1>b, <1>c, <2>3, <2>4, <2>6, <3>1, <3>2 DEF NameProvided
    <3>3. CASE N = {} /\ gPort = NoPort BY <1>b, <1>c, <2>2, <2>4, <2>6, <3>1, <3>3 DEF NameProvided
    <3>4. CASE N = {} /\ gPort # NoPort
      <4>1. Continue(t, "replace", gPort, {}) /\ gPort' = mine[t] BY <2>6, <3>4 DEF NameProvided
      <4>2. gPort \in MadePorts' BY <1>b, <1>c, <3>4
      <4> QED BY <2>3, <2>4, <3>1, <4>1, <4>2
    <3> QED BY <3>2, <3>3, <3>4
  <2>7. CASE PortClosed(t) BY <1>b, <1>c, <2>2, <2>7 DEF PortClosed
  <2> QED BY <2>1, <2>5, <2>6, <2>7
<1> QED BY <1>1, <1>2, <1>3, <1>4, <1>5, <1>6, <1>7, <1>8 DEF Session

\* The steps that are not a session's: they may only answer one that waits.
HostStep ==
    \/ Bridge \/ StopBegins \/ StopPool \/ StopEnds
    \/ \E c \in Calls : ExtCall(c) \/ Abandon(c) \/ CallReturns(c) \/ \E p \in Ports : ExtReply(c, p)
    \/ \E g \in Signalers : ExtSignal(g)
    \/ \E w \in Workers : Worker(w)
    \/ UNCHANGED vars

LEMMA StepCases ==
    ASSUME [Next]_vars
    PROVE  HostStep \/ \E t \in Sessions : Session(t)
BY DEF Next, Foreign, HostStep

\* The steps of the host that touch what AttachInv is about.
LEMMA HostCases ==
    ASSUME HostStep
    PROVE  /\ UNCHANGED <<stage, req, mine, left, holder, gPort>>
           /\ running' => running
           /\ \/ UNCHANGED <<io, rc, client, shutting, source, gen, open>> /\ scan' = scan
              \/ CtlPoll \/ CtlDone \/ StopEnds \/ BridgeStops \/ CloseWithdraws \/ CloseEnds
<1> USE DEF HostStep
<1>1. ASSUME NEW c \in Calls, ExtCall(c) \/ Abandon(c) \/ CallReturns(c) \/ \E p \in Ports : ExtReply(c, p)
      PROVE  UNCHANGED <<stage, req, mine, left, holder, gPort, io, rc, client, shutting, scan,
                         source, gen, open, running>>
  BY <1>1 DEF ExtCall, Abandon, CallReturns, ExtReply
<1>2. ASSUME NEW g \in Signalers, ExtSignal(g)
      PROVE  UNCHANGED <<stage, req, mine, left, holder, gPort, io, rc, client, shutting, scan,
                         source, gen, open, running>>
  BY <1>2 DEF ExtSignal
<1>3. ASSUME NEW w \in Workers, Worker(w)
      PROVE  UNCHANGED <<stage, req, mine, left, holder, gPort, io, rc, client, shutting, scan,
                         source, gen, open, running>>
  BY <1>3 DEF Worker, TakeMessage, SeeClosed, StartInvoke, EndInvoke
<1>4. CASE StopBegins \/ StopPool BY <1>4 DEF StopBegins, StopPool
<1>5. CASE UNCHANGED vars BY <1>5 DEF vars
<1>6. CASE Bridge
  <2>1. CASE CtlPoll BY <2>1 DEF CtlPoll
  <2>2. CASE CtlDone BY <2>2 DEF CtlDone
  <2>3. CASE CloseWithdraws \/ CloseEnds
    <3>1. UNCHANGED <<stage, req, mine, left, holder, gPort, running>>
      BY <2>3 DEF CloseWithdraws, CloseEnds
    <3> QED BY <2>3, <3>1
  <2>4. CASE ReplyPoll \/ SigPoll \/ BridgeFailsAll \/ BridgeDown
    <3>1. UNCHANGED <<stage, req, mine, left, holder, gPort, io, rc, client, shutting, scan,
                      source, gen, open, running>>
      BY <2>4 DEF ReplyPoll, SigPoll, BridgeFailsAll, BridgeDown
    <3> QED BY <3>1
  <2>5. CASE BridgeStops BY <2>5 DEF BridgeStops
  <2> QED BY <1>6, <2>1, <2>2, <2>3, <2>4, <2>5 DEF Bridge
<1>7. CASE StopEnds BY <1>7 DEF StopEnds
<1> QED BY <1>1, <1>2, <1>3, <1>4, <1>5, <1>6, <1>7

\* Who is answered was waiting.
LEMMA HostAnswers ==
    ASSUME BaseInv, PhaseInv, ControlInv, HostStep, NEW t \in Sessions
    PROVE  \/ io'[t] = io[t] /\ rc'[t] = rc[t]
           \/ io[t] = "wait" /\ io'[t] = "done" /\ CtlPoll /\ t = Head(ctl) /\ rc'[t] \in Results
           \/ io[t] = "wait" /\ io'[t] = "done" /\ CtlDone /\ t = client
           \/ io[t] = "wait" /\ io'[t] = "done" /\ StopEnds /\ ~running /\ rc'[t] = "shutdown"
<1>a. SessionTypes /\ ctl \in Seq(Sessions) BY Types DEF RingTypes
<1>b. \A i \in 1 .. Len(ctl) : io[ctl[i]] = "wait" BY DEF ControlInv, CtlInv
<1>1. CASE UNCHANGED <<io, rc>> BY <1>1
<1>2. ASSUME NEW u \in Sessions, NEW x, Answer(u, x), u # t PROVE io'[t] = io[t] /\ rc'[t] = rc[t]
  BY <1>a, <1>2 DEF Answer, SessionTypes
<1>3. ASSUME NEW x \in Results, Answer(t, x) PROVE io'[t] = "done" /\ rc'[t] = x
  BY <1>a, <1>3 DEF Answer, SessionTypes
<1>4. CASE CtlPoll
  <2>1. Head(ctl) \in Sessions /\ Head(ctl) = ctl[1] /\ 1 \in 1 .. Len(ctl)
    BY <1>4, <1>a, HeadTypes DEF CtlPoll
  <2>2. io[Head(ctl)] = "wait" BY <1>b, <2>1
  <2>3. UNCHANGED <<io, rc>> \/ \E x \in Results : Answer(Head(ctl), x)
    BY <1>4 DEF CtlPoll, RunProvide, RunClose, Results
  <2> QED BY <1>1, <1>2, <1>3, <1>4, <2>1, <2>2, <2>3
<1>5. CASE CtlDone
  <2>1. client \in Sessions /\ Answer(client, "ok") /\ "ok" \in Results
    BY <1>5, Types DEF CtlDone, PhaseInv, BridgeTypes, Results
  <2>2. io[client] = "wait" BY <2>1 DEF ControlInv, CtlInv
  <2> QED BY <1>2, <1>3, <1>5, <2>1, <2>2
<1>6. CASE StopEnds
  <2> PICK L : L = {ctl[i] : i \in 1 .. Len(ctl)} OBVIOUS
  <2>1. /\ host = "pools"
        /\ io' = [u \in Sessions |-> IF u \in L THEN "done" ELSE io[u]]
        /\ rc' = [u \in Sessions |-> IF u \in L THEN "shutdown" ELSE rc[u]]
    BY <1>6 DEF StopEnds
  <2>2. t \in L => io[t] = "wait" BY <1>b
  <2>3. ~running BY <2>1 DEF PhaseInv
  <2> QED BY <1>6, <2>1, <2>2, <2>3
<1>7. CASE BridgeStops \/ CloseWithdraws \/ CloseEnds
  BY <1>1, <1>7 DEF BridgeStops, CloseWithdraws, CloseEnds
<1> QED BY <1>1, <1>4, <1>5, <1>6, <1>7, HostCases

LEMMA SessionInvStep ==
    ASSUME BaseInv, PhaseInv, PortInv, ControlInv, SessionInv, [Next]_vars
    PROVE  SessionInv'
<1>a. MadePorts \subseteq MadePorts' BY SetsStep
<1>b. \A u \in Sessions : SessionAt(u) BY DEF SessionInv
<1>1. ASSUME NEW t \in Sessions, Session(t) PROVE SessionInv'
  <2>1. SessionAt(t)' /\ (gPort' # NoPort => gPort' \in MadePorts') BY <1>1, SessionOwn
  <2>2. Others(t) BY <1>1, OthersKept
  <2>3. ASSUME NEW u \in Sessions \ {t} PROVE SessionAt(u)'
    BY <1>a, <1>b, <2>2, <2>3 DEF Others, SessionAt
  <2>4. \A u \in Sessions : SessionAt(u)' BY <2>1, <2>3
  <2> QED BY <2>1, <2>4 DEF SessionInv
<1>2. CASE HostStep
  <2>1. UNCHANGED <<stage, req, mine, left, holder, gPort>> BY <1>2, HostCases
  <2>2. ASSUME NEW u \in Sessions PROVE SessionAt(u)'
    <3>1. io'[u] = "no" <=> io[u] = "no" BY <1>2, HostAnswers
    <3> QED BY <1>a, <1>b, <2>1, <3>1 DEF SessionAt
  <2> QED BY <1>a, <2>1, <2>2 DEF SessionInv
<1> QED BY <1>1, <1>2, StepCases

-----------------------------------------------------------------------------
(* ClosedInv.                                                              *)

\* The bridge works for a session that waits, on a port it was given.
LEMMA ClientPort ==
    ASSUME BaseInv, ControlInv, SessionInv, client \in Sessions, req[client].op = "close"
    PROVE  stage[client] \in Closes /\ req[client].port = mine[client] /\ mine[client] \in MadePorts
<1>1. io[client] = "wait" /\ SessionAt(client) BY DEF ControlInv, CtlInv, SessionInv
<1>2. stage[client] \in {"idle", "open", "provide", "ctx"} \cup Closes BY Types DEF SessionTypes, Closes
<1> QED BY <1>1, <1>2 DEF SessionAt

LEMMA ClosedSession ==
    ASSUME BaseInv, PhaseInv, PortInv, ControlInv, SessionInv, ClosedInv, [Next]_vars,
           NEW t \in Sessions, Session(t)
    PROVE  ClosedInv'
<1>a. SessionTypes BY Types
<1>b. /\ MadePorts \subseteq MadePorts'
      /\ \A p \in MadePorts : p \in OpenPorts' => p \in OpenPorts
  BY SetsStep
<1>c. Others(t) /\ UNCHANGED <<client, scan, running>> /\ io[t] # "wait" BY OthersKept
<1>d. client \in Sessions => io[client] = "wait" BY DEF ControlInv, CtlInv
<1>e. client \in Sessions => req'[client] = req[client] BY <1>c, <1>d DEF Others
<1>1. client' \in Sessions => req'[client'].op \in {"close", "ctx"} BY <1>c, <1>e DEF ClosedInv
<1>2. ASSUME client \in Sessions, req[client].op = "close", req[client].port \in OpenPorts'
      PROVE  req[client].port[1] \in scan
  BY <1>2, <1>b, ClientPort DEF ClosedInv
<1>3. ASSUME NEW u \in Sessions \ {t}, running, stage'[u] \in Closes, io'[u] = "done"
      PROVE  mine'[u] \notin OpenPorts'
  <2>1. stage[u] \in Closes /\ io[u] = "done" /\ mine'[u] = mine[u] BY <1>c, <1>3 DEF Others
  <2>2. SessionAt(u) BY DEF SessionInv
  <2>3. mine[u] \in MadePorts BY <2>1, <2>2 DEF SessionAt
  <2> QED BY <1>b, <1>3, <2>1, <2>3 DEF ClosedInv
<1>4. ASSUME running, stage'[t] \in Closes, io'[t] = "done"
      PROVE  mine'[t] \notin OpenPorts'
  <2>a. SessionAt(t) BY DEF SessionInv
  <2>1. CASE Attach(t) \/ Detach(t)
    <3>1. io'[t] = io[t] /\ stage[t] = "idle" BY <2>1 DEF Attach, Detach
    <3> QED BY <1>4, <2>a, <3>1 DEF SessionAt
  <2>2. CASE OpenPort(t)
    <3>1. io'[t] = io[t] /\ stage[t] = "open" BY <2>2, OpenCases DEF Opens, NoSlot
    <3> QED BY <1>4, <2>a, <3>1 DEF SessionAt
  <2>3. CASE Provide(t)
    <3>1. stage'[t] = "provide" BY <2>3 DEF Provide
    <3> QED BY <1>4, <3>1 DEF Closes
  <2>4. CASE ClosePort(t)
    <3> PICK r : r = [op |-> "close", port |-> mine[t], name |-> Nobody] OBVIOUS
    <3>1. Request(t, r) /\ r.op = "close" /\ r.port = mine[t] BY <2>4 DEF ClosePort
    <3>2. UNCHANGED <<mine, gen, open>> /\ OpenPorts' = OpenPorts BY <2>4 DEF ClosePort, OpenPorts, IsOpen
    <3>3. ~IsOpen(mine[t])
      <4>1. IsOpen(r.port) => io'[t] = "push" BY <1>a, <3>1 DEF Request, SessionTypes
      <4> QED BY <1>4, <3>1, <4>1
    <3> QED BY <3>2, <3>3 DEF OpenPorts
  <2>5. CASE CloseCtx(t)
    <3>1. stage'[t] = "ctx" BY <1>a, <2>5 DEF CloseCtx, SessionTypes
    <3> QED BY <1>4, <3>1 DEF Closes
  <2>6. CASE PostCtl(t)
    <3>1. io'[t] = "wait" BY <1>a, <1>4, <2>6 DEF PostCtl, SessionTypes
    <3> QED BY <1>4, <3>1
  <2>7. CASE Returned(t)
    <3>1. io'[t] = "no" BY <1>a, <2>7 DEF Returned, SessionTypes
    <3> QED BY <1>4, <3>1
  <2> QED BY <2>1, <2>2, <2>3, <2>4, <2>5, <2>6, <2>7 DEF Session
<1>5. \A u \in Sessions : running' /\ stage'[u] \in Closes /\ io'[u] = "done" => mine'[u] \notin OpenPorts'
  BY <1>c, <1>3, <1>4
<1> QED BY <1>c, <1>e, <1>1, <1>2, <1>5 DEF ClosedInv, Closes

LEMMA ClosedHost ==
    ASSUME BaseInv, PhaseInv, PortInv, ControlInv, SessionInv, ClosedInv, [Next]_vars, HostStep
    PROVE  ClosedInv'
<1>a. /\ MadePorts \subseteq MadePorts'
      /\ \A p \in MadePorts : p \in OpenPorts' => p \in OpenPorts
  BY SetsStep
<1>b. UNCHANGED <<stage, req, mine, left, holder, gPort>> /\ (running' => running) BY HostCases
<1>c. \A u \in Sessions : SessionAt(u) BY DEF SessionInv
<1>1. ASSUME NEW u \in Sessions, running', stage[u] \in Closes, io'[u] = "done"
      PROVE  mine[u] \notin OpenPorts'
  <2>1. mine[u] \in MadePorts /\ (io[u] = "wait" => req[u].op = "close" /\ req[u].port = mine[u])
    BY <1>c, <1>1 DEF SessionAt
  <2>2. CASE io'[u] = io[u] BY <1>a, <1>b, <1>1, <2>1, <2>2 DEF ClosedInv
  <2>3. CASE io[u] = "wait" /\ CtlPoll /\ u = Head(ctl)
    <3>1. IsOpen(req[u].port) => ~(RunClose(req[u]) /\ io'[u] = "done")
      BY <2>1, <2>3 DEF RunClose, Stale
    <3>2. RunClose(req[u]) BY <2>1, <2>3 DEF CtlPoll, RunProvide
    <3>3. mine[u] \notin OpenPorts BY <1>1, <2>1, <2>3, <3>1, <3>2 DEF OpenPorts
    <3> QED BY <1>a, <2>1, <3>3
  <2>4. CASE io[u] = "wait" /\ CtlDone /\ u = client
    <3>1. scan = {} BY <2>4 DEF CtlDone
    <3>2. mine[u] \notin OpenPorts BY <2>1, <2>4, <3>1 DEF ClosedInv
    <3> QED BY <1>a, <2>1, <3>2
  <2>5. CASE ~running BY <1>1, <1>b, <2>5
  <2> QED BY <2>2, <2>3, <2>4, <2>5, HostAnswers
<1>2. ASSUME client' \in Sessions
      PROVE  /\ req[client'].op \in {"close", "ctx"}
             /\ req[client'].op = "close" /\ req[client'].port \in OpenPorts' => req[client'].port[1] \in scan'
  <2> USE DEF ClosedInv
  <2>1. CASE UNCHANGED <<client, gen, open>> /\ scan' = scan
    <3>1. OpenPorts' = OpenPorts BY <2>1 DEF OpenPorts, IsOpen
    <3> QED BY <1>2, <2>1, <3>1
  <2>2. CASE CtlPoll
    <3> PICK t : t = Head(ctl) OBVIOUS
    <3>1. client = Nobody BY <2>2 DEF CtlPoll, PhaseInv
    <3>2. RunClose(req[t]) /\ client' # client BY <1>2, <2>2, <3>1 DEF CtlPoll, RunProvide
    <3>3. /\ req[t].op \in {"close", "ctx"} /\ client' = t
          /\ scan' = IF req[t].op = "ctx" THEN Slots ELSE {req[t].port[1]}
      BY <3>2 DEF RunClose
    <3> QED BY <3>3
  <2>3. CASE CtlDone BY <1>2, <2>3 DEF CtlDone
  <2>4. CASE StopEnds \/ BridgeStops
    <3>1. client = Nobody /\ client' = client BY <2>4 DEF StopEnds, BridgeStops, PhaseInv
    <3> QED BY <1>2, <3>1
  <2> PICK p : p = req[client].port OBVIOUS
  <2>5. CASE CloseWithdraws
    <3> PICK s : s = Least(scan) OBVIOUS
    <3>1. UNCHANGED <<client, gen, open>> /\ (scan' = scan \/ (scan' = scan \ {s} /\ ~open[s]))
      BY <2>5 DEF CloseWithdraws
    <3>2. OpenPorts' = OpenPorts BY <3>1 DEF OpenPorts, IsOpen
    <3>3. p \in OpenPorts => open[p[1]] BY DEF OpenPorts, IsOpen
    <3> QED BY <1>2, <3>1, <3>2, <3>3
  <2>6. CASE CloseEnds
    <3>1. client' = client /\ scan' = scan \ {shutting[1]} /\ OpenPorts' = OpenPorts \ {shutting}
          /\ shutting # NoPort
      BY <2>6, SetsEnd DEF CloseEnds
    <3>2. ASSUME p \in OpenPorts, p # shutting PROVE p[1] # shutting[1]
      <4>1. IsOpen(p) /\ IsOpen(shutting) BY <3>1, <3>2 DEF OpenPorts, PortInv, ShutInv
      <4>2. p \in Ports /\ shutting \in Ports /\ gen[p[1]] = p[2] /\ gen[shutting[1]] = shutting[2]
        BY <4>1 DEF IsOpen
      <4>3. p = <<p[1], p[2]>> /\ shutting = <<shutting[1], shutting[2]>> BY <4>2, PortPair
      <4> QED BY <3>2, <4>2, <4>3
    <3> QED BY <1>2, <3>1, <3>2
  <2> QED BY <2>1, <2>2, <2>3, <2>4, <2>5, <2>6, HostCases
<1> QED BY <1>b, <1>1, <1>2 DEF ClosedInv

-----------------------------------------------------------------------------
(* ServeInv.                                                               *)

\* A name that was provided adds to what the port serves.
LEMMA ProvidedNames ==
    ASSUME ServeInv, NEW t \in Sessions, stage[t] = "provide", io[t] = "done", rc[t] = "ok"
    PROVE  Serves(mine[t], Names \ (left[t] \ {req[t].name}))
BY DEF ServeInv, Serves

LEMMA ServeSession ==
    ASSUME BaseInv, PortInv, SessionInv, ServeInv, [Next]_vars, NEW t \in Sessions, Session(t)
    PROVE  ServeInv'
<1> DEFINE Kept(p, N) == p \in OpenPorts' /\ p # shutting => \A n \in N : source[n] = p
<1>a. SessionTypes BY Types
<1>b. \A p \in MadePorts : p \in OpenPorts' => p \in OpenPorts BY SetsStep
<1>c. Others(t) /\ UNCHANGED <<shutting, source>> BY OthersKept
<1>d. \A u \in Sessions : SessionAt(u) BY DEF SessionInv
<1>e. NoPort \notin OpenPorts' BY DEF OpenPorts
<1>f. gPort \in MadePorts \cup {NoPort} BY DEF SessionInv
<1>1. ASSUME NEW p \in MadePorts \cup {NoPort}, NEW N, Serves(p, N) PROVE Kept(p, N)
  BY <1>b, <1>e, <1>1 DEF Serves
<1>2. \A u \in Sessions : stage[u] = "provide" => mine[u] \in MadePorts BY <1>d DEF SessionAt
<1>3. ASSUME Returned(t), NameProvided(t), NEW N, N = left[t] \ {req[t].name}
      PROVE  stage[t] = "provide" /\ Kept(mine[t], Names \ N)
  <2>1. stage[t] = "provide" /\ io[t] = "done" /\ rc[t] = "ok" BY <1>3 DEF Returned, NameProvided
  <2>2. mine[t] \in MadePorts BY <1>2, <2>1
  <2>3. Serves(mine[t], Names \ N) BY <1>3, <2>1, ProvidedNames
  <2> QED BY <1>1, <2>1, <2>2, <2>3
<1>4. Kept(gPort', Names)
  <2>1. CASE gPort' = gPort
    <3>1. Serves(gPort, Names) BY DEF ServeInv
    <3> QED BY <1>1, <1>f, <2>1, <3>1
  <2>2. CASE gPort' = NoPort BY <1>e, <2>2
  <2>3. CASE Returned(t) /\ gPort' # gPort /\ gPort' # NoPort
    <3>1. NameProvided(t) BY <2>3 DEF Returned, AttachFails, PortClosed
    <3> PICK N : N = left[t] \ {req[t].name} OBVIOUS
    <3>2. N = {} /\ gPort' = mine[t] BY <2>3, <3>1 DEF NameProvided
    <3>3. Kept(mine[t], Names \ N) BY <1>3, <2>3, <3>1
    <3>4. Kept(gPort', Names) BY <3>2, <3>3
    <3> QED BY <3>4
  <2>4. Returned(t) \/ gPort' = gPort
    <3>1. CASE OpenPort(t) BY <3>1, OpenCases DEF Opens, NoSlot
    <3>2. CASE ~OpenPort(t)
      BY <3>2 DEF Session, Attach, Provide, ClosePort, Detach, CloseCtx, PostCtl
    <3> QED BY <3>1, <3>2
  <2> QED BY <2>1, <2>2, <2>3, <2>4
<1>5. ASSUME NEW u \in Sessions \ {t}, stage'[u] = "provide"
      PROVE  /\ Kept(mine'[u], Names \ left'[u])
             /\ io'[u] = "done" /\ rc'[u] = "ok" => Kept(mine'[u], {req'[u].name})
  <2>1. /\ stage[u] = "provide" /\ io'[u] = io[u] /\ rc'[u] = rc[u] /\ mine'[u] = mine[u]
        /\ left'[u] = left[u] /\ req'[u] = req[u]
    BY <1>c, <1>5 DEF Others
  <2>2. /\ Serves(mine[u], Names \ left[u])
        /\ io[u] = "done" /\ rc[u] = "ok" => Serves(mine[u], {req[u].name})
    BY <2>1 DEF ServeInv
  <2>3. mine[u] \in MadePorts BY <1>2, <2>1
  <2>4. Kept(mine[u], Names \ left[u]) BY <1>1, <2>2, <2>3
  <2>5. io[u] = "done" /\ rc[u] = "ok" => Kept(mine[u], {req[u].name}) BY <1>1, <2>2, <2>3
  <2> HIDE DEF Kept
  <2> QED BY <2>1, <2>4, <2>5
<1>6. ASSUME stage'[t] = "provide"
      PROVE  /\ Kept(mine'[t], Names \ left'[t])
             /\ ~(io'[t] = "done" /\ rc'[t] = "ok")
  <2>a. stage[t] = "provide" => Serves(mine[t], Names \ left[t]) BY DEF ServeInv
  <2>b. stage[t] = "provide" => Kept(mine[t], Names \ left[t]) BY <1>1, <1>2, <2>a
  <2>1. CASE Attach(t) \/ Detach(t) \/ CloseCtx(t)
    <3>1. stage'[t] # "provide" BY <1>a, <2>1 DEF Attach, Detach, CloseCtx, SessionTypes
    <3> QED BY <1>6, <3>1
  <2>2. CASE OpenPort(t)
    <3>1. ASSUME NEW s, Opens(t, s) PROVE left'[t] = Names /\ io'[t] = "no"
      <4>1. stage[t] = "open" /\ UNCHANGED io /\ left' = [left EXCEPT ![t] = Names] BY <3>1 DEF Opens
      <4> QED BY <1>a, <1>d, <4>1 DEF SessionAt, SessionTypes
    <3>2. ASSUME NoSlot(t) PROVE stage'[t] # "provide" BY <1>a, <3>2 DEF NoSlot, SessionTypes
    <3>3. left'[t] = Names /\ io'[t] = "no" BY <1>6, <2>2, <3>1, <3>2, OpenCases
    <3> QED BY <3>3
  <2>3. CASE Provide(t)
    <3>1. /\ stage[t] = "provide" /\ mine' = mine /\ left' = left /\ \E r : Request(t, r)
      BY <2>3 DEF Provide
    <3>2. io'[t] = "push" \/ rc'[t] = "stale" BY <1>a, <3>1 DEF Request, SessionTypes
    <3> QED BY <2>b, <3>1, <3>2
  <2>4. CASE ClosePort(t)
    <3>1. stage'[t] # "provide" BY <2>4 DEF ClosePort
    <3> QED BY <1>6, <3>1
  <2>5. CASE PostCtl(t)
    <3>1. UNCHANGED <<stage, mine, left>> BY <2>5 DEF PostCtl
    <3>2. io'[t] = "wait" \/ rc'[t] = "shutdown" BY <1>a, <2>5 DEF PostCtl, SessionTypes
    <3> QED BY <1>6, <2>b, <3>1, <3>2
  <2>6. CASE Returned(t)
    <3>1. io'[t] = "no" BY <1>a, <2>6 DEF Returned, SessionTypes
    <3> PICK N : N = left[t] \ {req[t].name} OBVIOUS
    <3>2. NameProvided(t)
      <4>1. ~AttachFails(t) BY <1>a, <1>6 DEF AttachFails, Continue, SessionTypes
      <4>2. ~PortClosed(t) BY <1>a, <1>6 DEF PortClosed, Leave, SessionTypes
      <4> QED BY <2>6, <4>1, <4>2 DEF Returned
    <3>3. Continue(t, "provide", mine[t], N)
      BY <1>a, <1>6, <3>2 DEF NameProvided, Leave, Continue, SessionTypes
    <3>4. mine'[t] = mine[t] /\ left'[t] = N BY <1>a, <3>3 DEF Continue, SessionTypes
    <3>5. Kept(mine[t], Names \ N) BY <1>3, <2>6, <3>2
    <3> HIDE DEF Kept
    <3> QED BY <3>1, <3>4, <3>5
  <2> QED BY <2>1, <2>2, <2>3, <2>4, <2>5, <2>6 DEF Session
<1>7. ASSUME NEW u \in Sessions, stage'[u] = "provide"
      PROVE  /\ Kept(mine'[u], Names \ left'[u])
             /\ io'[u] = "done" /\ rc'[u] = "ok" => Kept(mine'[u], {req'[u].name})
  BY <1>5, <1>6, <1>7
<1> QED BY <1>c, <1>4, <1>7 DEF ServeInv, Serves

\* What the host's steps do to what a port serves.
LEMMA ServesKept ==
    ASSUME BaseInv, PortInv, SessionInv, [Next]_vars, HostStep,
           NEW p \in MadePorts \cup {NoPort}, NEW N \in SUBSET Names, Serves(p, N)
    PROVE  p \in OpenPorts' /\ p # shutting' => \A n \in N : source'[n] = p
<1>a. p \in OpenPorts' => p \in OpenPorts
  <2>1. NoPort \notin OpenPorts' BY DEF OpenPorts
  <2> QED BY <2>1, SetsStep
<1>b. p \in OpenPorts => p # NoPort BY PortSets
<1>1. CASE UNCHANGED <<shutting, source>> BY <1>a, <1>1 DEF Serves
<1>2. CASE CtlPoll
  <2> PICK r : r = req[Head(ctl)] OBVIOUS
  <2>1. /\ shutting' = shutting
        /\ \/ source' = source
           \/ source[r.name] = NoPort /\ source' = [source EXCEPT ![r.name] = r.port]
    BY <1>2 DEF CtlPoll, RunProvide, RunClose
  <2> QED BY <1>a, <1>b, <2>1, Types DEF Serves, SourceTypes
<1>3. CASE CloseWithdraws
  <2>1. \/ UNCHANGED <<shutting, source>>
        \/ /\ shutting = NoPort
           /\ source' = [n \in Names |-> IF source[n] = shutting' THEN NoPort ELSE source[n]]
    BY <1>3 DEF CloseWithdraws
  <2> QED BY <1>1, <1>a, <1>b, <2>1 DEF Serves
<1>4. CASE CloseEnds
  <2>1. OpenPorts' = OpenPorts \ {shutting} /\ source' = source BY <1>4, SetsEnd DEF CloseEnds
  <2> QED BY <2>1 DEF Serves
<1>5. CASE CtlDone \/ StopEnds \/ BridgeStops BY <1>1, <1>5 DEF CtlDone, StopEnds, BridgeStops
<1> QED BY <1>1, <1>2, <1>3, <1>4, <1>5, HostCases

LEMMA ServeHost ==
    ASSUME BaseInv, PhaseInv, PortInv, ControlInv, SessionInv, ClosedInv, ServeInv, [Next]_vars, HostStep
    PROVE  ServeInv'
<1> DEFINE Kept(p, N) == p \in OpenPorts' /\ p # shutting' => \A n \in N : source'[n] = p
<1>b. UNCHANGED <<stage, req, mine, left, holder, gPort>> BY HostCases
<1>c. gPort \in MadePorts \cup {NoPort} /\ \A u \in Sessions : SessionAt(u) BY DEF SessionInv
<1>1. ASSUME NEW p \in MadePorts \cup {NoPort}, NEW N \in SUBSET Names, Serves(p, N) PROVE Kept(p, N)
  BY <1>1, ServesKept
<1>2. Kept(gPort, Names)
  <2>1. Serves(gPort, Names) BY DEF ServeInv
  <2> QED BY <1>1, <1>c, <2>1
<1>3. ASSUME NEW u \in Sessions, stage[u] = "provide"
      PROVE  /\ Kept(mine[u], Names \ left[u])
             /\ io'[u] = "done" /\ rc'[u] = "ok" => Kept(mine[u], {req[u].name})
  <2>1. mine[u] \in MadePorts /\ (io[u] # "no" => req[u].op = "provide" /\ req[u].name \in left[u]
                                                    /\ req[u].port = mine[u])
    BY <1>c, <1>3 DEF SessionAt
  <2>2. left[u] \in SUBSET Names BY Types DEF SessionTypes
  <2>3. Kept(mine[u], Names \ left[u])
    <3>1. Serves(mine[u], Names \ left[u]) BY <1>3 DEF ServeInv
    <3> QED BY <1>1, <2>1, <3>1
  <2>4. ASSUME io'[u] = "done", rc'[u] = "ok" PROVE Kept(mine[u], {req[u].name})
    <3>1. CASE io'[u] = io[u] /\ rc'[u] = rc[u]
      <4>1. Serves(mine[u], {req[u].name}) BY <1>3, <2>4, <3>1 DEF ServeInv
      <4>2. {req[u].name} \in SUBSET Names BY <2>1, <2>2, <2>4, <3>1
      <4> QED BY <1>1, <2>1, <4>1, <4>2
    <3>2. CASE io[u] = "wait" /\ CtlPoll /\ u = Head(ctl)
      <4>1. RunProvide(req[u]) BY <2>1, <3>2 DEF CtlPoll, RunClose
      <4>2. rc'[u] = "ok" => source' = [source EXCEPT ![req[u].name] = mine[u]]
        <5>1. \/ Answer(u, "stale") \/ Answer(u, "already_provided")
              \/ source' = [source EXCEPT ![req[u].name] = mine[u]]
          BY <2>1, <3>2, <4>1 DEF RunProvide
        <5>2. ASSUME NEW x, Answer(u, x) PROVE rc'[u] = x BY <5>2, Types DEF Answer, SessionTypes
        <5> QED BY <5>1, <5>2
      <4>3. source'[req[u].name] = mine[u]
        BY <2>1, <2>2, <2>4, <3>2, <4>2, Types DEF SourceTypes
      <4> QED BY <4>3
    <3>3. CASE io[u] = "wait" /\ CtlDone /\ u = client BY <2>1, <3>3 DEF ClosedInv
    <3>4. CASE rc'[u] = "shutdown" BY <2>4, <3>4
    <3> QED BY <3>1, <3>2, <3>3, <3>4, HostAnswers
  <2> QED BY <2>3, <2>4
<1> QED BY <1>b, <1>2, <1>3 DEF ServeInv, Serves

-----------------------------------------------------------------------------
(* KnownInv.                                                               *)

LEMMA KnownSession ==
    ASSUME BaseInv, PortInv, SessionInv, ClosedInv, KnownInv, [Next]_vars, NEW t \in Sessions, Session(t)
    PROVE  KnownInv'
<1>a. SessionTypes BY Types
<1>c. Others(t) /\ UNCHANGED running BY OthersKept
<1>d. \A u \in Sessions : SessionAt(u) BY DEF SessionInv
<1>e. NoPort \notin OpenPorts /\ NoPort \notin OpenPorts' BY DEF OpenPorts
<1> SUFFICES ASSUME running, NEW p \in OpenPorts'
             PROVE  p = gPort' \/ (holder' \in Sessions /\ p = mine'[holder'])
    BY <1>c DEF KnownInv
<1>f. p \in OpenPorts => p = gPort \/ (holder \in Sessions /\ p = mine[holder]) BY DEF KnownInv
<1>0. CASE UNCHANGED <<gPort, holder, mine, gen, open>>
  <2>1. OpenPorts' = OpenPorts BY <1>0 DEF OpenPorts, IsOpen
  <2> QED BY <1>0, <1>f, <2>1
<1>1. CASE Attach(t) \/ Detach(t)
  <2>1. holder = Nobody /\ gPort' = gPort /\ UNCHANGED <<gen, open>> BY <1>1 DEF Attach, Detach
  <2>2. OpenPorts' = OpenPorts BY <2>1 DEF OpenPorts, IsOpen
  <2> QED BY <1>f, <2>1, <2>2
<1>2. CASE OpenPort(t)
  <2>a. stage[t] = "open" BY <1>2 DEF OpenPort
  <2>b. holder = t /\ mine[t] = NoPort BY <1>d, <2>a DEF SessionAt
  <2>c. p \in OpenPorts => p = gPort BY <1>e, <1>f, <2>b
  <2>1. ASSUME NEW s, Opens(t, s) PROVE p = gPort' \/ (holder' \in Sessions /\ p = mine'[holder'])
    <3> PICK n : n = <<s, gen[s] + 1>> OBVIOUS
    <3>1. OpenPorts' = OpenPorts \cup {n} BY <2>1, SetsOpen
    <3>2. mine' = [mine EXCEPT ![t] = n] /\ UNCHANGED <<gPort, holder>> BY <2>1 DEF Opens
    <3>3. mine'[t] = n BY <1>a, <3>2 DEF SessionTypes
    <3> QED BY <2>b, <2>c, <3>1, <3>2, <3>3
  <2>2. ASSUME NoSlot(t) PROVE p = gPort'
    <3>1. gPort' = gPort /\ OpenPorts' = OpenPorts BY <2>2 DEF NoSlot, OpenPorts, IsOpen
    <3> QED BY <2>c, <3>1
  <2> QED BY <1>2, <2>1, <2>2, OpenCases
<1>3. CASE Provide(t) \/ ClosePort(t) \/ CloseCtx(t) \/ PostCtl(t)
  BY <1>0, <1>3 DEF Provide, ClosePort, CloseCtx, PostCtl
<1>4. CASE Returned(t)
  <2>1. io[t] = "done" /\ (AttachFails(t) \/ NameProvided(t) \/ PortClosed(t)) /\ UNCHANGED <<gen, open>>
    BY <1>4 DEF Returned
  <2>2. p \in OpenPorts BY <2>1 DEF OpenPorts, IsOpen
  <2>3. stage[t] \notin {"idle", "open"} BY <1>d, <2>1 DEF SessionAt
  <2>4. stage[t] # "ctx" => holder = t BY <1>d, <2>3 DEF SessionAt
  <2>5. CASE stage[t] = "ctx"
    <3>1. Leave(t) /\ gPort' = gPort BY <2>1, <2>5 DEF AttachFails, NameProvided, PortClosed
    <3>2. holder # t BY <1>d, <2>5 DEF SessionAt
    <3>3. holder' = holder /\ \A u \in Sessions \ {t} : mine'[u] = mine[u]
      BY <1>a, <2>5, <3>1 DEF Leave, SessionTypes
    <3> QED BY <1>f, <2>2, <3>1, <3>2, <3>3
  <2>6. CASE stage[t] \in Closes
    <3>1. gPort' = (IF stage[t] = "detach" THEN NoPort ELSE gPort)
      BY <2>1, <2>6 DEF AttachFails, NameProvided, PortClosed, Closes
    <3>2. mine[t] \notin OpenPorts BY <2>1, <2>6 DEF ClosedInv
    <3>3. stage[t] = "detach" => mine[t] = gPort BY <1>d DEF SessionAt
    <3>4. holder = t BY <2>4, <2>6 DEF Closes
    <3>5. p = gPort /\ p # mine[t] BY <1>f, <2>2, <3>2, <3>4
    <3> QED BY <3>1, <3>3, <3>5
  <2>7. CASE AttachFails(t)
    <3>1. holder = t /\ holder' = holder /\ gPort' = gPort /\ mine'[t] = mine[t]
      BY <1>a, <2>4, <2>7 DEF AttachFails, Continue, SessionTypes
    <3> QED BY <1>f, <2>2, <3>1
  <2>8. CASE NameProvided(t)
    <3>a. stage[t] = "provide" /\ holder = t BY <2>4, <2>8 DEF NameProvided
    <3> PICK N : N = left[t] \ {req[t].name} OBVIOUS
    <3>1. CASE N # {}
      <4>1. holder' = holder /\ gPort' = gPort /\ mine'[t] = mine[t]
        BY <1>a, <2>8, <3>1 DEF NameProvided, Continue, SessionTypes
      <4> QED BY <1>f, <2>2, <3>a, <4>1
    <3>2. CASE N = {} /\ gPort = NoPort
      <4>1. gPort' = mine[t] BY <2>8, <3>2 DEF NameProvided
      <4> QED BY <1>e, <1>f, <2>2, <3>2, <3>a, <4>1
    <3>3. CASE N = {} /\ gPort # NoPort
      <4>1. gPort' = mine[t] /\ holder' = holder /\ mine'[t] = gPort
        BY <1>a, <2>8, <3>3 DEF NameProvided, Continue, SessionTypes
      <4> QED BY <1>f, <2>2, <3>a, <4>1
    <3> QED BY <3>1, <3>2, <3>3
  <2>9. stage[t] \in {"idle", "open", "provide", "ctx"} \cup Closes BY <1>a DEF SessionTypes, Closes
  <2>10. stage[t] = "provide" => AttachFails(t) \/ NameProvided(t) BY <2>1 DEF PortClosed
  <2> QED BY <2>3, <2>5, <2>6, <2>7, <2>8, <2>9, <2>10
<1> QED BY <1>1, <1>2, <1>3, <1>4 DEF Session

LEMMA KnownHost ==
    ASSUME BaseInv, PortInv, KnownInv, [Next]_vars, HostStep
    PROVE  KnownInv'
<1>1. UNCHANGED <<mine, holder, gPort>> /\ (running' => running) BY HostCases
<1>2. OpenPorts' \subseteq OpenPorts
  <2>1. CASE UNCHANGED <<gen, open>> BY <2>1 DEF OpenPorts, IsOpen
  <2>2. CASE CloseEnds BY <2>2, SetsEnd
  <2>3. CASE CtlPoll \/ CtlDone \/ StopEnds \/ BridgeStops \/ CloseWithdraws
    BY <2>1, <2>3 DEF CtlPoll, CtlDone, StopEnds, BridgeStops, CloseWithdraws
  <2> QED BY <2>1, <2>2, <2>3, HostCases
<1> QED BY <1>1, <1>2 DEF KnownInv

LEMMA AttachStep ==
    ASSUME BaseInv, PhaseInv, PortInv, ControlInv, AttachInv, [Next]_vars
    PROVE  AttachInv'
<1>1. SessionInv /\ ClosedInv /\ ServeInv /\ KnownInv BY DEF AttachInv
<1>2. SessionInv' BY <1>1, SessionInvStep
<1>3. ASSUME NEW t \in Sessions, Session(t) PROVE ClosedInv' /\ ServeInv' /\ KnownInv'
  BY <1>1, <1>3, ClosedSession, ServeSession, KnownSession
<1>4. CASE HostStep
  <2>1. ClosedInv' BY <1>1, <1>4, ClosedHost
  <2>2. ServeInv' BY <1>1, <1>4, ServeHost
  <2>3. KnownInv' BY <1>1, <1>4, KnownHost
  <2> QED BY <1>2, <2>1, <2>2, <2>3 DEF AttachInv
<1> QED BY <1>2, <1>3, <1>4, StepCases DEF AttachInv

-----------------------------------------------------------------------------
(* The theorems.                                                           *)

IInv ==
    /\ BaseInv /\ PhaseInv /\ PortInv /\ CallInv /\ CarryInv /\ CountInv
    /\ ControlInv /\ AttachInv

LEMMA CountInit ==
    ASSUME Init
    PROVE  CountInv
<1> SUFFICES ASSUME NEW p \in Ports PROVE CountAt(p)
    BY DEF CountInv
<1>1. refs[p] = 0 /\ Attached(p) = 0 BY DEF Init, Attached, IsOpen, Ports
<1>2. FramesOn(p) = {} /\ HeldBy(p) = {} BY DEF Init, FramesOn, Framed, HeldBy
<1>3. Len(queue) = 0 /\ Len(sigRing) = 0 BY DEF Init
<1>4. InQueue(p) = Cardinality({}) /\ InSigRing(p) = Cardinality({})
  <2>1. {i \in 1 .. Len(queue) : PortOf(queue[i]) = p} = {} BY <1>3
  <2>2. {i \in 1 .. Len(sigRing) : PortOf(sigRing[i]) = p} = {} BY <1>3
  <2> QED BY <2>1, <2>2 DEF InQueue, InSigRing
<1> QED BY <1>1, <1>2, <1>4, FS_EmptySet DEF CountAt, Users, Workings

LEMMA IInvInit == Init => IInv
<1> SUFFICES ASSUME Init PROVE IInv
    OBVIOUS
<1>1. BaseInv BY BaseInit
<1>2. PhaseInv BY DEF Init, PhaseInv
<1>3. PortInv
  <2>1. SourceIsOpen BY DEF Init, SourceIsOpen
  <2>2. NoWaitOnClosed BY DEF Init, NoWaitOnClosed, Waiting
  <2>3. ShutInv BY DEF Init, ShutInv
  <2> QED BY <2>1, <2>2, <2>3 DEF PortInv
<1>4. CallInv
  <2>1. Len(replies) = 0 BY DEF Init
  <2>2. \A c \in Calls : CallAt(c) BY DEF Init, CallAt
  <2> QED BY <2>1, <2>2 DEF CallInv
<1>5. CarryInv
  <2>1. Len(queue) = 0 /\ Len(sigRing) = 0 /\ \A w \in Workers : wk[w].msg = Nobody BY DEF Init
  <2>2. Framed = {} BY DEF Init, Framed
  <2> QED BY <2>1, <2>2 DEF CarryInv, FramedMade
<1>6. ControlInv
  <2>1. Len(ctl) = 0 /\ client = Nobody /\ \A t \in Sessions : io[t] = "no" BY DEF Init
  <2> QED BY <2>1 DEF ControlInv, CtlInv, CtlNotLost
<1>7. AttachInv
  <2>1. OpenPorts = {} BY DEF Init, OpenPorts, IsOpen, Ports
  <2>2. \A t \in Sessions : SessionAt(t) BY DEF Init, SessionAt, Closes
  <2>3. SessionInv BY <2>2 DEF SessionInv, Init
  <2>4. ClosedInv BY <2>1 DEF ClosedInv, Init
  <2>5. ServeInv BY <2>1 DEF ServeInv, Serves
  <2>6. KnownInv BY <2>1 DEF KnownInv
  <2> QED BY <2>3, <2>4, <2>5, <2>6 DEF AttachInv
<1> QED BY <1>1, <1>2, <1>3, <1>4, <1>5, <1>6, <1>7, CountInit DEF IInv

LEMMA IInvStep == IInv /\ [Next]_vars => IInv'
<1> SUFFICES ASSUME IInv, [Next]_vars PROVE IInv'
    OBVIOUS
<1>1. /\ BaseInv /\ PhaseInv /\ PortInv /\ CallInv /\ CarryInv /\ CountInv
      /\ ControlInv /\ AttachInv
  BY DEF IInv
<1>2. BaseInv' BY <1>1, BaseStep
<1>3. PhaseInv' BY <1>1, PhaseStep
<1>4. PortInv' BY <1>1, PortStep
<1>5. CallInv' BY <1>1, CallStep
<1>6. CarryInv' BY <1>1, CarryStep
<1>7. CountInv' BY <1>1, CountStep
<1>8. ControlInv' BY <1>1, ControlStep
<1>9. AttachInv' BY <1>1, AttachStep
<1> QED BY <1>2, <1>3, <1>4, <1>5, <1>6, <1>7, <1>8, <1>9 DEF IInv

LEMMA IInvAlways == Spec => []IInv
BY IInvInit, IInvStep, PTL DEF Spec

\* No reference count is negative: it is what it counts.
LEMMA HostFromIInv == IInv => HostInv
<1> SUFFICES ASSUME IInv PROVE HostInv
    OBVIOUS
<1>1. BaseInv /\ CountInv BY DEF IInv
<1>2. ASSUME NEW p \in Ports PROVE refs[p] \in Nat
  <2>1. /\ Users(p) \in Nat /\ Workings(p) \in Nat /\ Attached(p) \in {0, 1}
        /\ InQueue(p) \in Nat /\ InSigRing(p) \in Nat
    BY <1>1, CountNats
  <2>2. refs[p] = Attached(p) + Users(p) + InQueue(p) + InSigRing(p) + Workings(p)
    BY <1>1 DEF CountInv, CountAt
  <2> QED BY <2>1, <2>2
<1>3. refs \in [Ports -> Nat]
  <2>1. refs \in [Ports -> Int] BY <1>1, Types DEF PortTypes
  <2> QED BY <1>2, <2>1
<1>4. TypeOK
  <2>1. HostTypes /\ BridgeTypes /\ PortTypes /\ CallTypes /\ PoolTypes /\ RingTypes
        /\ SourceTypes /\ SessionTypes
    BY <1>1, Types
  <2> QED BY <1>3, <2>1
      DEF TypeOK, HostTypes, BridgeTypes, PortTypes, CallTypes, CallRecord, PoolTypes, RingTypes,
          Replies, SourceTypes, SessionTypes, Requests
<1>5. ImplCounted BY <1>1, CountIs DEF CountInv
<1> QED BY <1>4, <1>5 DEF HostInv

\* The plugin's impl is released when nobody can call it any more and not before:
\* extHostStop, bridgeClose, the replies and the workers give back exactly the
\* references that acquireSource and the pool pushes took (ext_runtime.nim).
THEOREM ImplsAreCounted == Spec => []HostInv
BY IInvAlways, HostFromIInv, PTL

\* A request is completed only by a reply of the port it was sent to, given after
\* its invoke began: replyPoll drops every other one.
THEOREM RepliesAreOwn == Spec => []OwnReply
<1>1. IInv => OwnReply BY DEF IInv, CallInv, CallAt, OwnReply
<1> QED BY <1>1, IInvAlways, PTL

\* The source table names open ports only: bridgeClose withdraws the names of a
\* port, and runCtl refuses a message for a port that was closed in the meantime.
THEOREM SourcesAreOpen == Spec => []SourceIsOpen
<1>1. IInv => SourceIsOpen BY DEF IInv, PortInv
<1> QED BY <1>1, IInvAlways, PTL

\* No request waits for a closed port: bridgeClose answers those in flight before
\* the port is closed, and extCall finds only open ones.
THEOREM NobodyWaitsOnClosed == Spec => []NoWaitOnClosed
<1>1. IInv => NoWaitOnClosed BY DEF IInv, PortInv
<1> QED BY <1>1, IInvAlways, PTL

\* No control call waits for ever: its message is in the ring or in the bridge's
\* hands, and extHostStop answers what the bridge left over (postCtl, ctlPoll).
THEOREM ControlNotLost == Spec => []CtlNotLost
<1>1. IInv => CtlNotLost BY DEF IInv, ControlInv
<1> QED BY <1>1, IInvAlways, PTL

\* While the host runs and the plugin is at rest, an open port is the one the
\* plugin knows and serves every name (plugin.cpp, attach and detach).
THEOREM AttachesAreWhole == Spec => []AttachIsWhole
<1>1. IInv => AttachIsWhole
  <2> SUFFICES ASSUME IInv, running, holder = Nobody, bridge = "poll", NEW s \in Slots, open[s]
               PROVE  gPort = <<s, gen[s]>> /\ \A n \in Names : source[n] = gPort
      BY DEF AttachIsWhole
  <2> PICK p : p = <<s, gen[s]>> OBVIOUS
  <2>1. p \in OpenPorts BY Types DEF IInv, PortTypes, OpenPorts, IsOpen
  <2>2. p = gPort BY <2>1 DEF IInv, AttachInv, KnownInv
  <2>3. shutting = NoPort BY DEF IInv, PortInv, ShutInv
  <2>4. gPort # shutting BY <2>1, <2>2, <2>3, PortSets
  <2> QED BY <2>1, <2>2, <2>4 DEF IInv, AttachInv, ServeInv, Serves
<1> QED BY <1>1, IInvAlways, PTL

\* A request that was answered before a worker started it is not started
\* afterwards: the exchange of its ExtCallState lets one side win.
THEOREM AnsweredStay == Spec => AnsweredNeverStarts
<1>1. IInv /\ [Next]_vars
        => [\A c \in Calls : call[c].at \in {"ended", "done"} /\ c \notin invoked => c \notin invoked']_vars
  BY AnsweredStep DEF IInv
<1> QED BY <1>1, IInvAlways, PTL DEF Spec, AnsweredNeverStarts
=============================================================================
