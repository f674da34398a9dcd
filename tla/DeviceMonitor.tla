---------------------------- MODULE DeviceMonitor ----------------------------
(***************************************************************************)
(* The device monitor example: its C++ program (ffiapi/cpp_example), the   *)
(* generated wrapper it calls, the library context behind it and the       *)
(* provider mylib.nim.                                                     *)
(*                                                                         *)
(* main() runs down a script.  A blocking request goes through the call    *)
(* ring to the processing thread and main() waits for its slot; a signal   *)
(* goes the same way and nobody waits.  An asynchronous request goes       *)
(* through the ring of its own, is bounded by the window of the context,   *)
(* and its answer goes through the response ring to the delivery thread,   *)
(* which runs the callback.  What a provider emits goes through the event  *)
(* ring to the same thread.                                                *)
(*                                                                         *)
(* The providers of mylib.nim do not suspend, so that a request is handled *)
(* in one step.  Left out: what the program prints, and growth of rings.   *)
(***************************************************************************)
EXTENDS Naturals, Sequences, FiniteSets, Functions

CONSTANTS
    Last,      \* main() adds the devices 1 .. Last
    Window     \* asyncQueueDepth

ASSUME MonitorAssumption == Last \in Nat /\ Last >= 4 /\ Window \in Nat \ {0}

Devices == 1 .. Last
Calls == {"async", "future"} \X Devices
NoCall == <<>>
Topics == {"discovered", "status", "batch", "alert"}
Events == {"discovered", "status", "alert"} \X Devices \cup {<<"batch", 0>>}

\* main() from the creation of the context to the unsubscribing of everything.
\* It would remove the first, fourth and second device
Script == << <<"create", 0>>, <<"subscribe", 0>>, <<"initialize", 0>>, <<"add", 0>>,
             <<"list", 0>>, <<"async", 0>>, <<"future", 0>>, <<"get", 3>>, <<"sensor", 1>>,
             <<"tags", 1>>, <<"capabilities", 1>>, <<"remove", 1>>, <<"remove", 4>>,
             <<"offStatus", 0>>, <<"remove", 2>>, <<"list", 0>>,
             <<"ingest", 1>>, <<"ingest", 2>>, <<"lastReading", 0>>, <<"offAll", 0>> >>

Blocking == {"initialize", "add", "list", "get", "sensor", "tags", "capabilities",
             "remove", "lastReading"}
Needed == {"initialize", "add", "lastReading"}  \* an error is a return of main()
\* So is an error of "ingest", but the call ring holds two signals at most and has room

VARIABLES
    \* main()
    step,      \* how many lines of Script it is through with
    main,      \* where it is within a line, or after the script
    turn,      \* the device it is at in the loops of the asynchronous parts
    pending,   \* the counter `pending`
    inScope,   \* `pending` exists
    gaveUp,    \* the bounded waits that ran out: "async", "drain"
    heard,     \* events counted, as <<listener, event>>
    \* the wrapper
    listeners, \* of each topic, those registered with its dispatcher
    permits,   \* asyncWindow_
    future,    \* of each device: "none", "issued", "ready"
    \* the library context
    active, joined,
    ring, asyncRing, respRing, eventRing,
    slot,      \* the response slot of main(): "free", "busy", "ok", "error"
    payload,   \* what LastReading put into it
    depth,     \* asyncDepth
    inFlight,
    landing,   \* the call the delivery thread runs the callback of, or NoCall
    casting,   \* the listeners it has still to run, with the event
    \* the provider
    initialized, devices, readings

scriptVars == <<step, main, turn>>
countVars == <<pending, inScope, gaveUp>>
futureVars == <<permits, future>>
gateVars == <<active, joined, inFlight>>
callVars == <<ring, slot, payload>>
asyncVars == <<asyncRing, respRing, depth>>
deliveryVars == <<landing, casting>>
providerVars == <<initialized, devices, readings>>
vars == <<scriptVars, countVars, heard, listeners, futureVars, gateVars, callVars, asyncVars,
          eventRing, deliveryVars, providerVars>>

At(op) == main = "go" /\ step < Len(Script) /\ Script[step + 1][1] = op
Line == Script[step + 1]
NextLine == step' = step + 1 /\ main' = "go" /\ turn' = 1

Init ==
    /\ step = 0 /\ main = "go" /\ turn = 1
    /\ pending = 0 /\ inScope = FALSE /\ gaveUp = {}
    /\ heard = {} /\ listeners = [t \in Topics |-> {}]
    /\ permits = Window /\ future = [d \in Devices |-> "none"]
    /\ active = FALSE /\ joined = FALSE /\ inFlight = 0
    /\ ring = <<>> /\ slot = "free" /\ payload = <<0, 0>>
    /\ asyncRing = <<>> /\ respRing = <<>> /\ depth = 0
    /\ eventRing = <<>> /\ landing = NoCall /\ casting = <<>>
    /\ initialized = FALSE /\ devices = {} /\ readings = <<0, 0>>

-------------------------------------------------------------------------------
(* main(): context, listeners and blocking requests *)

\* May fail, and main() returns
CreateContext ==
    /\ At("create")
    /\ \/ active' = TRUE /\ NextLine
       \/ main' = "return" /\ UNCHANGED <<active, step, turn>>
    /\ UNCHANGED <<countVars, heard, listeners, futureVars, joined, inFlight, callVars, asyncVars,
                   eventRing, deliveryVars, providerVars>>

\* A counting listener for each topic, and a logger for the status of devices
Subscribe ==
    /\ At("subscribe") /\ NextLine
    /\ listeners' = [t \in Topics |-> IF t = "status" THEN {"count", "log"} ELSE {"count"}]
    /\ UNCHANGED <<countVars, heard, futureVars, gateVars, callVars, asyncVars, eventRing,
                   deliveryVars, providerVars>>

\* <lib>_call: the gate, the slot and the ring
Request ==
    /\ \E op \in Blocking : At(op)
    /\ active /\ inFlight' = inFlight + 1
    /\ slot = "free" /\ slot' = "busy"
    /\ ring' = Append(ring, Line)
    /\ main' = "wait"
    /\ UNCHANGED <<step, turn, countVars, heard, listeners, futureVars, active, joined, payload,
                   asyncVars, eventRing, deliveryVars, providerVars>>

\* Both readings, and the second one last
RoundTrip == payload = <<2, 2>>

Answered ==
    /\ main = "wait" /\ slot \in {"ok", "error"}
    /\ slot' = "free" /\ inFlight' = inFlight - 1
    /\ IF Line[1] \in Needed /\ (slot = "error" \/ (Line[1] = "lastReading" /\ ~RoundTrip))
         THEN main' = "return" /\ UNCHANGED <<step, turn>>
         ELSE NextLine
    /\ UNCHANGED <<countVars, heard, listeners, futureVars, active, joined, ring, payload,
                   asyncVars, eventRing, deliveryVars, providerVars>>

\* <lib>_call with the name of a signal: no slot
IngestReading ==
    /\ At("ingest") /\ NextLine
    /\ active /\ inFlight' = inFlight + 1
    /\ ring' = Append(ring, Line)
    /\ UNCHANGED <<countVars, heard, listeners, futureVars, active, joined, slot, payload,
                   asyncVars, eventRing, deliveryVars, providerVars>>

OffStatus ==
    /\ At("offStatus") /\ NextLine
    /\ listeners' = [listeners EXCEPT !["status"] = @ \ {"count"}]
    /\ UNCHANGED <<countVars, heard, futureVars, gateVars, callVars, asyncVars, eventRing,
                   deliveryVars, providerVars>>

OffAll ==
    /\ At("offAll") /\ main' = "return" /\ step' = step + 1
    /\ listeners' = [t \in Topics |-> {}]
    /\ UNCHANGED <<turn, countVars, heard, futureVars, gateVars, callVars, asyncVars, eventRing,
                   deliveryVars, providerVars>>

-------------------------------------------------------------------------------
(* main(): asynchronous requests *)

\* tryEnqueueAsync
Room == depth < Window

\* <lib>_callAsync: queued, or asyncAgain
CallAsync(c) ==
    /\ active
    /\ IF Room
         THEN depth' = depth + 1 /\ inFlight' = inFlight + 1 /\ asyncRing' = Append(asyncRing, c)
         ELSE UNCHANGED <<depth, inFlight, asyncRing>>
    /\ UNCHANGED <<heard, listeners, active, joined, callVars, respRing, eventRing, deliveryVars,
                   providerVars>>

\* Mutant: not counted
CountCall_Late ==
    /\ At("async") /\ turn <= Last
    /\ inScope' = TRUE /\ main' = "issue"
    /\ UNCHANGED <<step, turn, pending, gaveUp, heard, listeners, futureVars, gateVars, callVars,
                   asyncVars, eventRing, deliveryVars, providerVars>>

\* Counted before it is issued
CountCall ==
    /\ At("async") /\ turn <= Last
    /\ inScope' = TRUE /\ pending' = pending + 1
    /\ main' = "issue"
    /\ UNCHANGED <<step, turn, gaveUp, heard, listeners, futureVars, gateVars, callVars, asyncVars,
                   eventRing, deliveryVars, providerVars>>

IssueAsync ==
    /\ main = "issue"
    /\ CallAsync(<<"async", turn>>)
    /\ IF Room THEN main' = "go" /\ turn' = turn + 1 ELSE main' = "rollBack" /\ turn' = turn
    /\ UNCHANGED <<step, countVars, futureVars>>

\* ... and again after a millisecond
RollBack ==
    /\ main = "rollBack" /\ main' = "go"
    /\ pending' = pending - 1
    /\ UNCHANGED <<step, turn, inScope, gaveUp, heard, listeners, futureVars, gateVars, callVars,
                   asyncVars, eventRing, deliveryVars, providerVars>>

\* The wait for the callbacks is over, or its 500 rounds are
LeaveAsync ==
    /\ At("async") /\ turn > Last
    /\ NextLine /\ inScope' = FALSE
    /\ gaveUp' = IF pending > 0 THEN gaveUp \cup {"async"} ELSE gaveUp
    /\ UNCHANGED <<pending, heard, listeners, futureVars, gateVars, callVars, asyncVars, eventRing,
                   deliveryVars, providerVars>>

\* Mutant: the semaphore is not asked
AcquirePermit_None ==
    /\ At("future") /\ turn <= Last
    /\ main' = "issueFuture"
    /\ UNCHANGED <<step, turn, countVars, heard, listeners, futureVars, gateVars, callVars,
                   asyncVars, eventRing, deliveryVars, providerVars>>

\* getDeviceFuture: a permit, then the call
AcquirePermit ==
    /\ At("future") /\ turn <= Last
    /\ permits > 0 /\ permits' = permits - 1
    /\ main' = "issueFuture"
    /\ UNCHANGED <<step, turn, countVars, heard, listeners, future, gateVars, callVars, asyncVars,
                   eventRing, deliveryVars, providerVars>>

IssueFuture ==
    /\ main = "issueFuture" /\ main' = "go" /\ turn' = turn + 1
    /\ CallAsync(<<"future", turn>>)
    /\ future' = [future EXCEPT ![turn] = IF Room THEN "issued" ELSE "refused"]
    /\ permits' = IF Room THEN permits ELSE permits + 1
    /\ UNCHANGED <<step, countVars>>

\* get(), of each in turn
GetFutures ==
    /\ At("future") /\ turn > Last
    /\ \A d \in Devices : future[d] \in {"ready", "refused"}
    /\ NextLine
    /\ UNCHANGED <<countVars, heard, listeners, futureVars, gateVars, callVars, asyncVars, eventRing,
                   deliveryVars, providerVars>>

-------------------------------------------------------------------------------
(* The processing thread *)

Known(op, d) ==
    \/ op \in {"initialize", "lastReading"}
    \/ initialized /\ (op \in {"add", "list"} \/ d \in devices)

\* What nobody listens to is not queued
Queue(topic, events) == IF listeners[topic] = {} THEN <<>> ELSE events

Discovered == [d \in Devices |-> <<"discovered", d>>]

\* Mutant: the batch before its devices
Adds_BatchFirst == Queue("batch", << <<"batch", 0>> >>) \o Queue("discovered", Discovered)

\* AddDevice: each device in turn, then all of them
Adds == Queue("discovered", Discovered) \o Queue("batch", << <<"batch", 0>> >>)

Emits(op, d) ==
    CASE op = "add"    -> Adds
      [] op = "remove" -> Queue("status", << <<"status", d>> >>)
      [] op = "sensor" -> Queue("alert", << <<"alert", d>> >>)
      [] OTHER         -> <<>>

HandleRequest(op, d) ==
    /\ IF Known(op, d)
         THEN /\ slot' = "ok"
              /\ initialized' = (initialized \/ op = "initialize")
              /\ devices' = CASE op = "add"    -> Devices
                              [] op = "remove" -> devices \ {d}
                              [] OTHER         -> devices
              /\ eventRing' = eventRing \o Emits(op, d)
         ELSE slot' = "error" /\ UNCHANGED <<initialized, devices, eventRing>>
    /\ payload' = IF op = "lastReading" THEN readings ELSE payload
    /\ UNCHANGED <<readings, inFlight>>

\* d is the number of the reading
HandleSignal(d) ==
    /\ readings' = <<readings[1] + 1, d>>
    /\ inFlight' = inFlight - 1
    /\ UNCHANGED <<slot, payload, initialized, devices, eventRing>>

HandleShutdown ==
    /\ slot' = "ok" /\ initialized' = FALSE /\ devices' = {}
    /\ UNCHANGED <<payload, readings, inFlight, eventRing>>

CourierPoll ==
    /\ ring # <<>> /\ ring' = Tail(ring) /\ ~joined
    /\ LET op == Head(ring)[1] d == Head(ring)[2] IN
         CASE op = "ingest"   -> HandleSignal(d)
           [] op = "shutdown" -> HandleShutdown
           [] OTHER           -> HandleRequest(op, d)
    /\ UNCHANGED <<scriptVars, countVars, heard, listeners, futureVars, active, joined, asyncVars,
                   deliveryVars>>

\* GetDevice answers at once, before any timeout.  inFlight goes down just before the answer is
\* queued, and a full response ring would lose it.  One step: only main() reads inFlight, and
\* it then waits until this thread has answered its shutdown request
AsyncCourierPoll ==
    /\ asyncRing # <<>> /\ asyncRing' = Tail(asyncRing) /\ ~joined
    /\ inFlight' = inFlight - 1
    /\ IF Len(respRing) < Window
         THEN respRing' = Append(respRing, Head(asyncRing)) /\ UNCHANGED depth
         ELSE depth' = depth - 1 /\ UNCHANGED respRing
    /\ UNCHANGED <<scriptVars, countVars, heard, listeners, futureVars, active, joined, callVars,
                   eventRing, deliveryVars, providerVars>>

-------------------------------------------------------------------------------
(* The delivery thread *)

Idle == landing = NoCall /\ casting = <<>>

\* The dispatcher's listeners as they are now
EventCourierPoll ==
    /\ eventRing # <<>> /\ Idle /\ ~joined
    /\ LET e == Head(eventRing) IN
         casting' = IF listeners[e[1]] = {} THEN <<>> ELSE <<e, listeners[e[1]]>>
    /\ eventRing' = Tail(eventRing)
    /\ UNCHANGED <<scriptVars, countVars, heard, listeners, futureVars, gateVars, callVars,
                   asyncVars, landing, providerVars>>

RunListener ==
    /\ casting # <<>>
    /\ \E who \in casting[2] :
         /\ heard' = heard \cup {<<who, casting[1]>>}
         /\ casting' = IF casting[2] = {who} THEN <<>> ELSE <<casting[1], casting[2] \ {who}>>
    /\ UNCHANGED <<scriptVars, countVars, listeners, futureVars, gateVars, callVars, asyncVars,
                   eventRing, landing, providerVars>>

\* The reservation of the window is given back before the callback runs
Land ==
    /\ respRing # <<>> /\ Idle
    /\ landing' = Head(respRing) /\ respRing' = Tail(respRing)
    /\ depth' = depth - 1
    /\ UNCHANGED <<scriptVars, countVars, heard, listeners, futureVars, gateVars, callVars,
                   asyncRing, eventRing, casting, providerVars>>

RespCourierPoll == ~joined /\ Land

\* The callback of main(), and the two steps of the one behind a future
RunCallback ==
    /\ landing # NoCall /\ landing[1] = "async"
    /\ pending' = pending - 1 /\ landing' = NoCall
    /\ UNCHANGED <<scriptVars, inScope, gaveUp, heard, listeners, futureVars, gateVars, callVars,
                   asyncVars, eventRing, casting, providerVars>>

\* Mutant: the permit stays with the future
ReleasePermit_Kept ==
    /\ landing # NoCall /\ landing[1] = "future" /\ future[landing[2]] = "issued"
    /\ future' = [future EXCEPT ![landing[2]] = "released"]
    /\ UNCHANGED <<scriptVars, countVars, heard, listeners, permits, gateVars, callVars, asyncVars,
                   eventRing, deliveryVars, providerVars>>

ReleasePermit ==
    /\ landing # NoCall /\ landing[1] = "future" /\ future[landing[2]] = "issued"
    /\ permits' = permits + 1
    /\ future' = [future EXCEPT ![landing[2]] = "released"]
    /\ UNCHANGED <<scriptVars, countVars, heard, listeners, gateVars, callVars, asyncVars, eventRing,
                   deliveryVars, providerVars>>

SetValue ==
    /\ landing # NoCall /\ landing[1] = "future" /\ future[landing[2]] = "released"
    /\ future' = [future EXCEPT ![landing[2]] = "ready"] /\ landing' = NoCall
    /\ UNCHANGED <<scriptVars, countVars, heard, listeners, permits, gateVars, callVars, asyncVars,
                   eventRing, casting, providerVars>>

-------------------------------------------------------------------------------
(* ~Mylib(): the dispatchers are cleared, then <lib>_shutdown *)

CloseGate ==
    /\ main = "return"
    /\ main' = IF active THEN "drain" ELSE "done"
    /\ active' = FALSE
    /\ listeners' = [t \in Topics |-> {}]
    /\ UNCHANGED <<step, turn, countVars, heard, futureVars, joined, inFlight, callVars, asyncVars,
                   eventRing, deliveryVars, providerVars>>

\* The calls in flight are through, or five seconds are.  claimSlot finds a slot, as main()
\* is the only one to block.  The wait for the event ring after it, of 250 ms at most,
\* changes no state and ends on any
RequestShutdown ==
    /\ main = "drain" /\ main' = "hook"
    /\ gaveUp' = IF inFlight > 0 THEN gaveUp \cup {"drain"} ELSE gaveUp
    /\ slot = "free" /\ slot' = "busy" /\ inFlight' = inFlight + 1
    /\ ring' = Append(ring, <<"shutdown", 0>>)
    /\ UNCHANGED <<step, turn, pending, inScope, heard, listeners, futureVars, active, joined,
                   payload, asyncVars, eventRing, deliveryVars, providerVars>>

ShutdownAnswered ==
    /\ main = "hook" /\ slot = "ok" /\ main' = "join"
    /\ slot' = "free" /\ inFlight' = inFlight - 1
    /\ UNCHANGED <<step, turn, countVars, heard, listeners, futureVars, active, joined, ring,
                   payload, asyncVars, eventRing, deliveryVars, providerVars>>

\* Both threads: a callback at work is waited for, what is queued is not
Join ==
    /\ main = "join" /\ main' = "sweep"
    /\ Idle
    /\ joined' = TRUE
    /\ UNCHANGED <<step, turn, countVars, heard, listeners, futureVars, active, inFlight, callVars,
                   asyncVars, eventRing, deliveryVars, providerVars>>

\* An answer left behind goes to its callback on this thread, with the shutdown status
Sweep == main = "sweep" /\ Land

\* Mutant: without a sweep
FreeCouriers_NoSweep ==
    /\ main = "sweep" /\ Idle /\ main' = "done"
    /\ ring' = <<>> /\ asyncRing' = <<>> /\ respRing' = <<>> /\ eventRing' = <<>>
    /\ UNCHANGED <<step, turn, countVars, heard, listeners, futureVars, gateVars, slot, payload,
                   depth, deliveryVars, providerVars>>

FreeCouriers ==
    /\ main = "sweep" /\ respRing = <<>> /\ Idle /\ main' = "done"
    /\ ring' = <<>> /\ asyncRing' = <<>> /\ eventRing' = <<>>
    /\ UNCHANGED <<step, turn, countVars, heard, listeners, futureVars, gateVars, slot, payload,
                   respRing, depth, deliveryVars, providerVars>>

-------------------------------------------------------------------------------

Main ==
    \/ CreateContext \/ Subscribe \/ Request \/ Answered \/ IngestReading \/ OffStatus \/ OffAll
    \/ CountCall \/ IssueAsync \/ RollBack \/ LeaveAsync
    \/ AcquirePermit \/ IssueFuture \/ GetFutures
    \/ CloseGate \/ RequestShutdown \/ ShutdownAnswered \/ Join \/ Sweep \/ FreeCouriers

Processing == CourierPoll \/ AsyncCourierPoll

Callbacks == RunCallback \/ ReleasePermit \/ SetValue

Delivery == EventCourierPoll \/ RunListener \/ RespCourierPoll \/ Callbacks

Next == Main \/ Processing \/ Delivery

Spec == Init /\ [][Next]_vars

\* The threads run; of a sweep the callbacks are steps of main(), which they cannot tell
FairSpec == Spec /\ WF_vars(Main) /\ WF_vars(Processing) /\ WF_vars(Delivery)

-------------------------------------------------------------------------------
(* Properties *)

\* Types.  That the counters `pending`, asyncDepth, inFlight and the semaphore never go below
\* zero, and the semaphore never above its window, is a claim about every roll-back in the code
TypeOK ==
    /\ step \in 0 .. Len(Script) /\ turn \in 1 .. Last + 1
    /\ main \in {"go", "wait", "issue", "rollBack", "issueFuture", "return", "drain", "hook",
                 "join", "sweep", "done"}
    /\ pending \in 0 .. Last /\ inScope \in BOOLEAN /\ gaveUp \subseteq {"async", "drain"}
    /\ heard \subseteq {"count", "log"} \X Events
    /\ listeners \in [Topics -> SUBSET {"count", "log"}]
    /\ permits \in 0 .. Window
    /\ future \in [Devices -> {"none", "issued", "refused", "released", "ready"}]
    /\ active \in BOOLEAN /\ joined \in BOOLEAN /\ inFlight \in Nat
    /\ slot \in {"free", "busy", "ok", "error"} /\ payload \in (0 .. 2) \X (0 .. 2)
    /\ asyncRing \in Seq(Calls) /\ respRing \in Seq(Calls) /\ depth \in 0 .. Window
    /\ eventRing \in Seq(Events) /\ landing \in Calls \cup {NoCall}
    /\ initialized \in BOOLEAN /\ devices \subseteq Devices /\ readings \in (0 .. 2) \X (0 .. 2)

Queued == Range(asyncRing) \cup Range(respRing)
Outstanding == Queued \cup ({landing} \ {NoCall})

\* A callback runs only while what it refers to exists: `pending`, unless the wait was given up,
\* which is what counting before the call is for; and the Mylib object, so that after
\* <lib>_shutdown has joined the delivery thread only the callbacks it runs itself are left
CallbacksInScope ==
    /\ landing # NoCall /\ landing[1] = "async" => inScope \/ "async" \in gaveUp
    /\ joined => casting = <<>> /\ (landing # NoCall => main = "sweep")

\* The semaphore of the wrapper bounds futures so that the library's window never refuses one,
\* unless callbacks of the first part still hold some of it
FuturesNotRefused == (\E d \in Devices : future[d] = "refused") => "async" \in gaveUp

\* No counter is rolled back once too often or too late: `pending`, the semaphore, the window
\* and the calls in flight keep within their bounds, and so the window has room for every future
\* that got a permit.
WithinBounds == TypeOK /\ FuturesNotRefused

\* An accepted call is in one place until its callback has run, and `pending` is the number of
\* those, with one more from fetch_add to the issue or the roll-back: no full ring drops one,
\* and the shutdown only if it gave up the drain
AcceptedLand ==
    "drain" \notin gaveUp =>
        /\ pending = Cardinality(Outstanding \cap ({"async"} \X Devices))
                     + (IF main \in {"issue", "rollBack"} THEN 1 ELSE 0)
        /\ \A d \in Devices : future[d] = "issued" => <<"future", d>> \in Outstanding

\* Events reach a listener in the order of the emits of AddDevice: with the batch, all devices
\* have been heard of.  A listener that was removed hears of no device removed afterwards
ListenersHear ==
    /\ <<"count", <<"batch", 0>>>> \in heard =>
         \A d \in Devices : <<"count", <<"discovered", d>>>> \in heard
    /\ <<"count", <<"status", 2>>>> \notin heard

\* main() comes to its end: every future gets its value and the threads let it go.  If it got a
\* context it gets through the script: the readings, which are signals that nothing answers,
\* are handled before the request behind them that reads them back
Finishes == <>(main = "done" /\ step \in {0, Len(Script)})

===============================================================================
