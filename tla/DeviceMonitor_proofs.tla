------------------------ MODULE DeviceMonitor_proofs ------------------------
(***************************************************************************)
(* Proofs about DeviceMonitor: its counters stay within their bounds, a    *)
(* callback finds what it refers to, the window never refuses a future, an *)
(* accepted call lands, and listeners hear what they should.               *)
(***************************************************************************)
EXTENDS DeviceMonitor, Integers, FiniteSetTheorems, SequenceTheorems, TLAPS

\* Expanded in every leaf: the tuples behind UNCHANGED
USE DEF scriptVars, countVars, futureVars, gateVars, callVars, asyncVars, deliveryVars,
        providerVars, vars
USE MonitorAssumption

-----------------------------------------------------------------------------
(* The lines of the script *)

\* What is put into the call ring
Lines == (Blocking \X Nat) \cup {<<"ingest", 1>>, <<"ingest", 2>>, <<"shutdown", 0>>}

\* Where a line can be, s lines before it
Place(line, s) ==
    /\ line[1] = "create" => s = 0
    /\ line[1] = "subscribe" => s = 1
    /\ line[1] = "async" => s = 5
    /\ line[1] = "future" => s = 6
    /\ line[1] = "offStatus" => s = 13
    /\ line[1] = "offAll" => s = 19
    /\ line[1] = "ingest" => s \in {16, 17} /\ line \in Lines
    /\ line[1] \in Blocking => s \notin {0, 1, 5, 6, 13, 16, 17, 19} /\ line \in Lines
    /\ line = <<"remove", 2>> => s = 14

LEMMA ScriptLength == Len(Script) = 20
BY DEF Script

LEMMA Places ==
    ASSUME NEW s \in 0 .. 19
    PROVE  Place(Script[s + 1], s)
<1>1. s \in 0 .. 9 => Place(Script[s + 1], s) BY DEF Script, Place, Lines, Blocking
<1>2. s \in 10 .. 19 => Place(Script[s + 1], s) BY DEF Script, Place, Lines, Blocking
<1> QED BY <1>1, <1>2

\* Where main() is when it is at a line
LEMMA AtLine ==
    ASSUME step \in 0 .. 20
    PROVE  /\ At("create") => main = "go" /\ step = 0
           /\ At("subscribe") => main = "go" /\ step = 1
           /\ At("async") => main = "go" /\ step = 5
           /\ At("future") => main = "go" /\ step = 6
           /\ At("offStatus") => main = "go" /\ step = 13
           /\ At("offAll") => main = "go" /\ step = 19
           /\ At("ingest") => /\ main = "go" /\ step \in {16, 17}
                              /\ Line \in Lines /\ Line[1] = "ingest"
           /\ (\E op \in Blocking : At(op)) =>
                /\ main = "go" /\ step \in 2 .. 18 /\ step \notin {5, 6, 13, 16, 17}
                /\ Line \in Lines /\ Line[1] \in Blocking
BY ScriptLength, Places DEF At, Line, Place

-----------------------------------------------------------------------------
(* Types, and where main() is when it waits, issues and returns *)

Types ==
    /\ step \in 0 .. 20 /\ turn \in 1 .. Last + 1
    /\ main \in {"go", "wait", "issue", "rollBack", "issueFuture", "return", "drain", "hook",
                 "join", "sweep", "done"}
    /\ pending \in Int /\ inScope \in BOOLEAN /\ gaveUp \subseteq {"async", "drain"}
    /\ heard \subseteq {"count", "log"} \X Events
    /\ listeners \in [Topics -> SUBSET {"count", "log"}]
    /\ permits \in Nat
    /\ future \in [Devices -> {"none", "issued", "refused", "released", "ready"}]
    /\ active \in BOOLEAN /\ joined \in BOOLEAN /\ inFlight \in Int
    /\ ring \in Seq(Lines)
    /\ slot \in {"free", "busy", "ok", "error"} /\ payload \in Nat \X (0 .. 2)
    /\ asyncRing \in Seq(Calls) /\ respRing \in Seq(Calls) /\ depth \in Int
    /\ eventRing \in Seq(Events) /\ landing \in Calls \cup {NoCall}
    /\ casting \in {<<>>} \cup (Events \X SUBSET {"count", "log"})
    /\ initialized \in BOOLEAN /\ devices \subseteq Devices /\ readings \in Nat \X (0 .. 2)

Empty == ring = <<>> /\ asyncRing = <<>> /\ respRing = <<>> /\ eventRing = <<>> /\ Idle

Control ==
    /\ main \in {"issue", "rollBack"} => step = 5 /\ turn <= Last /\ inScope
    /\ main = "issueFuture" => step = 6 /\ turn <= Last
    /\ main = "wait" => step \in 2 .. 18 /\ step \notin {5, 6, 13, 16, 17}
                        /\ Line \in Lines /\ Line[1] \in Blocking
    /\ active <=> step > 0 /\ main \notin {"drain", "hook", "join", "sweep", "done"}
    /\ main = "sweep" => joined
    /\ joined => main \in {"sweep", "done"} /\ casting = <<>>
    /\ main = "done" => Empty
    /\ step <= 1 => Empty /\ main \in {"go", "return", "done"} /\ (main = "return" => ~active)

LEMMA FirstTurn == 1 \in 1 .. Last + 1 /\ Last \in Nat
OBVIOUS

LEMMA TypesInit == Init => Types /\ Control
<1> SUFFICES ASSUME Init PROVE Types /\ Control
  OBVIOUS
<1>1. turn \in 1 .. Last + 1 /\ step \in 0 .. 20 BY FirstTurn DEF Init
<1>4. listeners \in [Topics -> SUBSET {"count", "log"}]
      /\ future \in [Devices -> {"none", "issued", "refused", "released", "ready"}]
  BY DEF Init
<1>5. ring \in Seq(Lines) /\ asyncRing \in Seq(Calls) /\ respRing \in Seq(Calls)
      /\ eventRing \in Seq(Events)
  BY DEF Init
<1>6. payload \in Nat \X (0 .. 2) /\ readings \in Nat \X (0 .. 2)
  BY DEF Init
<1>7. landing \in Calls \cup {NoCall} /\ casting \in {<<>>} \cup (Events \X SUBSET {"count", "log"})
  BY DEF Init
<1>8. permits \in Nat /\ pending \in Int /\ inFlight \in Int /\ depth \in Int
      /\ gaveUp \subseteq {"async", "drain"} /\ heard \subseteq {"count", "log"} \X Events
      /\ devices \subseteq Devices
  BY DEF Init
<1>9. inScope \in BOOLEAN /\ active \in BOOLEAN /\ joined \in BOOLEAN /\ initialized \in BOOLEAN
      /\ slot = "free" /\ main = "go"
  BY DEF Init
<1>2. Types BY <1>1, <1>4, <1>5, <1>6, <1>7, <1>8, <1>9 DEF Types
<1>3. Control BY DEF Init, Control, Empty, Idle
<1> QED BY <1>2, <1>3

LEMMA EmitsType ==
    ASSUME NEW op, NEW d, Known(op, d), devices \subseteq Devices
    PROVE  Emits(op, d) \in Seq(Events)
<1>1. CASE op = "add"
  <2>1. Discovered \in Seq(Events) /\ << <<"batch", 0>> >> \in Seq(Events)
    BY DEF Discovered, Events, Devices
  <2>2. Queue("discovered", Discovered) \in Seq(Events)
        /\ Queue("batch", << <<"batch", 0>> >>) \in Seq(Events)
    BY <2>1 DEF Queue
  <2> QED BY <1>1, <2>2 DEF Emits, Adds
<1>2. CASE op = "remove"
  <2>1. <<"status", d>> \in Events BY <1>2 DEF Known, Events
  <2> QED BY <1>2, <2>1 DEF Emits, Queue
<1>3. CASE op = "sensor"
  <2>1. <<"alert", d>> \in Events BY <1>3 DEF Known, Events
  <2> QED BY <1>3, <2>1 DEF Emits, Queue
<1>4. CASE op \notin {"add", "remove", "sensor"}
  BY <1>4 DEF Emits
<1> QED BY <1>1, <1>2, <1>3, <1>4

LEMMA TypesStep == Types /\ Control /\ [Next]_vars => Types'
<1> SUFFICES ASSUME Types, Control, [Next]_vars PROVE Types'
  OBVIOUS
<1>0. CASE UNCHANGED vars
  BY <1>0 DEF Types
<1>1. CASE CreateContext
  <2>1. step' \in 0 .. 20 /\ turn' \in 1 .. Last + 1 /\ main' \in {"go", "return"}
        /\ active' \in BOOLEAN
    <3>1. step = 0 BY <1>1, AtLine DEF Types, CreateContext
    <3>2. CASE NextLine BY <1>1, <3>1, <3>2, FirstTurn DEF Types, CreateContext, NextLine
    <3>3. CASE main' = "return" /\ UNCHANGED <<active, step, turn>> BY <3>3 DEF Types
    <3> QED BY <1>1, <3>2, <3>3 DEF CreateContext
  <2> QED BY <1>1, <2>1 DEF Types, CreateContext
<1>2. CASE Subscribe BY <1>2, AtLine DEF Types, Subscribe, NextLine
<1>3. CASE Request BY <1>3, AtLine DEF Types, Request
<1>4. CASE Answered
  <2>1. step' \in 0 .. 20 /\ turn' \in 1 .. Last + 1 /\ main' \in {"go", "return"}
    <3>1. main = "wait" /\ step \in 2 .. 18 BY <1>4 DEF Answered, Control
    <3>2. CASE NextLine BY <3>1, <3>2, FirstTurn DEF NextLine
    <3>3. CASE main' = "return" /\ UNCHANGED <<step, turn>> BY <3>3 DEF Types
    <3> QED BY <1>4, <3>2, <3>3 DEF Answered
  <2> QED BY <1>4, <2>1 DEF Types, Answered
<1>5. CASE IngestReading BY <1>5, AtLine DEF Types, IngestReading, NextLine
<1>6. CASE OffStatus BY <1>6, AtLine DEF Types, OffStatus, NextLine, Topics
<1>7. CASE OffAll BY <1>7, AtLine DEF Types, OffAll
<1>8. CASE CountCall BY <1>8, AtLine DEF Types, CountCall
<1>9. CASE IssueAsync
  <2>1. <<"async", turn>> \in Calls BY <1>9 DEF Types, Control, IssueAsync, Calls, Devices
  <2>2. turn' \in 1 .. Last + 1 /\ main' \in {"go", "rollBack"} /\ depth' \in Int
        /\ inFlight' \in Int /\ asyncRing' \in Seq(Calls)
    <3>1. turn \in 1 .. Last BY <1>9 DEF Types, Control, IssueAsync
    <3>2. CASE Room
      <4>1. turn' = turn + 1 /\ main' = "go" /\ depth' = depth + 1 /\ inFlight' = inFlight + 1
            /\ asyncRing' = Append(asyncRing, <<"async", turn>>)
        BY <1>9, <3>2 DEF IssueAsync, CallAsync
      <4>2. asyncRing \in Seq(Calls) /\ depth \in Int /\ inFlight \in Int BY DEF Types
      <4>3. turn' \in 1 .. Last + 1 BY <3>1, <4>1
      <4>4. asyncRing' \in Seq(Calls)
        <5>1. PICK c \in Calls : c = <<"async", turn>> BY <2>1
        <5> QED BY <4>1, <4>2, <5>1
      <4> QED BY <4>1, <4>2, <4>3, <4>4
    <3>3. CASE ~Room
      <4>1. turn' = turn /\ main' = "rollBack" /\ UNCHANGED <<depth, inFlight, asyncRing>>
        BY <1>9, <3>3 DEF IssueAsync, CallAsync
      <4> QED BY <3>1, <4>1 DEF Types
    <3> QED BY <3>2, <3>3
  <2> QED BY <1>9, <2>2 DEF Types, IssueAsync, CallAsync
<1>10. CASE RollBack BY <1>10 DEF Types, RollBack
<1>11. CASE LeaveAsync
  <2>1. gaveUp' \subseteq {"async", "drain"} BY <1>11 DEF Types, LeaveAsync
  <2>2. step = 5 BY <1>11, AtLine DEF Types, LeaveAsync
  <2>3. step' = 6 /\ main' = "go" /\ turn' = 1 /\ inScope' = FALSE
    BY <1>11, <2>2 DEF LeaveAsync, NextLine
  <2>4. UNCHANGED <<pending, heard, listeners, futureVars, gateVars, callVars, asyncVars,
                    eventRing, deliveryVars, providerVars>>
    BY <1>11 DEF LeaveAsync
  <2>5. step' \in 0 .. 20 /\ turn' \in 1 .. Last + 1 BY <2>3, FirstTurn
  <2>6. inScope' \in BOOLEAN BY <2>3, Zenon
  <2> QED BY <2>1, <2>3, <2>4, <2>5, <2>6 DEF Types
<1>12. CASE AcquirePermit BY <1>12 DEF Types, AcquirePermit
<1>13. CASE IssueFuture
  <2>1. <<"future", turn>> \in Calls BY <1>13 DEF Types, Control, IssueFuture, Calls, Devices
  <2>2. turn' \in 1 .. Last + 1 /\ depth' \in Int /\ inFlight' \in Int
        /\ asyncRing' \in Seq(Calls) /\ permits' \in Nat
    <3>1. turn \in 1 .. Last BY <1>13 DEF Types, Control, IssueFuture
    <3>2. CASE Room
      <4>1. turn' = turn + 1 /\ permits' = permits /\ depth' = depth + 1
            /\ inFlight' = inFlight + 1
            /\ asyncRing' = Append(asyncRing, <<"future", turn>>)
        BY <1>13, <3>2 DEF IssueFuture, CallAsync
      <4>2. asyncRing \in Seq(Calls) /\ depth \in Int /\ inFlight \in Int /\ permits \in Nat
        BY DEF Types
      <4>3. turn' \in 1 .. Last + 1 BY <3>1, <4>1
      <4>4. asyncRing' \in Seq(Calls)
        <5>1. PICK c \in Calls : c = <<"future", turn>> BY <2>1
        <5> QED BY <4>1, <4>2, <5>1
      <4> QED BY <4>1, <4>2, <4>3, <4>4
    <3>3. CASE ~Room
      <4>1. turn' = turn + 1 /\ main' = "go" /\ permits' = permits + 1
            /\ UNCHANGED <<depth, inFlight, asyncRing>>
        BY <1>13, <3>3 DEF IssueFuture, CallAsync
      <4> QED BY <3>1, <4>1 DEF Types
    <3> QED BY <3>2, <3>3
  <2> QED BY <1>13, <2>2 DEF Types, IssueFuture, CallAsync
<1>14. CASE GetFutures BY <1>14, AtLine DEF Types, GetFutures, NextLine
<1>15. CASE CloseGate BY <1>15 DEF Types, CloseGate
<1>16. CASE RequestShutdown
  <2>1. <<"shutdown", 0>> \in Lines BY DEF Lines
  <2> QED BY <1>16, <2>1 DEF Types, RequestShutdown
<1>17. CASE ShutdownAnswered BY <1>17 DEF Types, ShutdownAnswered
<1>18. CASE Join BY <1>18 DEF Types, Join
<1>19. CASE Land BY <1>19 DEF Types, Land
<1>20. CASE FreeCouriers BY <1>20 DEF Types, FreeCouriers
<1>21. CASE CourierPoll
  <2> DEFINE op == Head(ring)[1] d == Head(ring)[2]
  <2>a. ring \in Seq(Lines) /\ ring # <<>> /\ ring' = Tail(ring) BY <1>21 DEF Types, CourierPoll
  <2>1. Head(ring) \in Lines /\ ring' \in Seq(Lines) BY <2>a
  <2>2. CASE op = "ingest"
    <3>1. d \in 0 .. 2
      <4> PICK l \in Lines : l = Head(ring) BY <2>1
      <4>1. l[2] \in 0 .. 2 BY <2>2 DEF Lines, Blocking
      <4> QED BY <4>1
    <3>2. HandleSignal(d) BY <1>21, <2>2 DEF CourierPoll
    <3>3. readings' \in Nat \X (0 .. 2) /\ inFlight' \in Int
      <4>1. readings \in Nat \X (0 .. 2) /\ inFlight \in Int BY DEF Types
      <4>2. readings' = <<readings[1] + 1, d>> /\ inFlight' = inFlight - 1
        BY <3>2 DEF HandleSignal
      <4>3. readings[1] + 1 \in Nat BY <4>1
      <4> HIDE DEF d
      <4> QED BY <3>1, <4>1, <4>2, <4>3
    <3>4. UNCHANGED <<slot, payload, initialized, devices, eventRing>> BY <3>2 DEF HandleSignal
    <3>5. UNCHANGED <<scriptVars, countVars, heard, listeners, futureVars, active, joined,
                      asyncVars, deliveryVars>>
      BY <1>21 DEF CourierPoll
    <3> HIDE DEF op, d
    <3> QED BY <2>1, <3>3, <3>4, <3>5 DEF Types
  <2>3. CASE op = "shutdown"
    <3>2. HandleShutdown BY <1>21, <2>3 DEF CourierPoll
    <3> QED BY <1>21, <2>1, <3>2 DEF Types, CourierPoll, HandleShutdown
  <2>4. CASE op \notin {"ingest", "shutdown"}
    <3>2. HandleRequest(op, d) BY <1>21, <2>4 DEF CourierPoll
    <3>3. devices' \subseteq Devices /\ initialized' \in BOOLEAN /\ slot' \in {"ok", "error"}
      BY <3>2 DEF Types, HandleRequest
    <3>4. payload' \in Nat \X (0 .. 2) BY <3>2 DEF Types, HandleRequest
    <3>5. eventRing' \in Seq(Events)
      <4>1. CASE Known(op, d)
        <5>1. Emits(op, d) \in Seq(Events) BY <4>1, EmitsType DEF Types
        <5>2. eventRing' = eventRing \o Emits(op, d) BY <3>2, <4>1 DEF HandleRequest
        <5>3. PICK es \in Seq(Events) : es = Emits(op, d) BY <5>1
        <5> QED BY <5>2, <5>3 DEF Types
      <4>2. CASE ~Known(op, d) BY <3>2, <4>2 DEF Types, HandleRequest
      <4> QED BY <4>1, <4>2
    <3> QED BY <1>21, <2>1, <3>2, <3>3, <3>4, <3>5 DEF Types, CourierPoll, HandleRequest
  <2> QED BY <2>2, <2>3, <2>4
<1>22. CASE AsyncCourierPoll
  <2>1. asyncRing' \in Seq(Calls) /\ respRing' \in Seq(Calls) /\ depth' \in Int
        /\ inFlight' \in Int
    <3>1. Head(asyncRing) \in Calls /\ asyncRing' \in Seq(Calls) /\ inFlight' \in Int
      BY <1>22 DEF Types, AsyncCourierPoll
    <3>2. CASE Len(respRing) < Window
      <4>1. respRing' = Append(respRing, Head(asyncRing)) /\ depth' = depth
        BY <1>22, <3>2 DEF AsyncCourierPoll
      <4> QED BY <3>1, <4>1 DEF Types
    <3>3. CASE ~(Len(respRing) < Window) BY <1>22, <3>1, <3>3 DEF Types, AsyncCourierPoll
    <3> QED BY <3>2, <3>3, <3>1
  <2> QED BY <1>22, <2>1 DEF Types, AsyncCourierPoll
<1>23. CASE EventCourierPoll
  <2>1. Head(eventRing) \in Events /\ eventRing' \in Seq(Events)
    BY <1>23 DEF Types, EventCourierPoll
  <2>2. Head(eventRing)[1] \in Topics BY <2>1 DEF Events, Topics
  <2>3. casting' \in {<<>>} \cup (Events \X SUBSET {"count", "log"})
    BY <1>23, <2>1, <2>2 DEF Types, EventCourierPoll
  <2> QED BY <1>23, <2>1, <2>3 DEF Types, EventCourierPoll
<1>24. CASE RunListener BY <1>24 DEF Types, RunListener
<1>25. CASE RunCallback BY <1>25 DEF Types, RunCallback
<1>26. CASE ReleasePermit BY <1>26 DEF Types, ReleasePermit, Calls
<1>27. CASE SetValue BY <1>27 DEF Types, SetValue, Calls
<1> QED
  BY <1>0, <1>1, <1>2, <1>3, <1>4, <1>5, <1>6, <1>7, <1>8, <1>9, <1>10, <1>11, <1>12, <1>13,
     <1>14, <1>15, <1>16, <1>17, <1>18, <1>19, <1>20, <1>21, <1>22, <1>23, <1>24, <1>25,
     <1>26, <1>27
  DEF Next, Main, Processing, Delivery, Callbacks, RespCourierPoll, Sweep

LEMMA ControlStep == Types /\ Control /\ [Next]_vars => Control'
<1> SUFFICES ASSUME Types, Control, [Next]_vars PROVE Control'
  OBVIOUS
<1> USE DEF Types, Control, Empty, Idle
<1>0. CASE UNCHANGED vars
  BY <1>0 DEF Line
<1>1. CASE CreateContext
  <2>1. main = "go" /\ step = 0 BY <1>1, AtLine DEF CreateContext
  <2> QED BY <1>1, <2>1 DEF CreateContext, NextLine
<1>2. CASE Subscribe
  <2>1. main = "go" /\ step = 1 BY <1>2, AtLine DEF Subscribe
  <2> QED BY <1>2, <2>1 DEF Subscribe, NextLine
<1>3. CASE Request
  <2>1. main = "go" /\ step \in 2 .. 18 /\ step \notin {5, 6, 13, 16, 17}
        /\ Line \in Lines /\ Line[1] \in Blocking
    BY <1>3, AtLine DEF Request
  <2>2. Line' = Line BY <1>3 DEF Request, Line
  <2> QED BY <1>3, <2>1, <2>2 DEF Request
<1>4. CASE Answered
  <2>1. main = "wait" /\ main' \in {"go", "return"} /\ step' \in {step, step + 1}
        /\ UNCHANGED <<active, joined, casting>>
    BY <1>4 DEF Answered, NextLine
  <2>2. step \in 2 .. 18 BY <2>1
  <2>3. step' \in Nat /\ step' >= 2 BY <2>1, <2>2
  <2>4. ~(step' <= 1) /\ step' > 0 BY <2>3
  <2>5. active /\ ~joined /\ main' # "done"
    <3>1. step > 0 BY <2>2
    <3> QED BY <2>1, <3>1
  <2> HIDE DEF Types, Control
  <2>6. active' /\ ~joined' BY <2>1, <2>5
  <2> QED BY <2>1, <2>4, <2>5, <2>6 DEF Control
<1>5. CASE IngestReading
  <2>1. main = "go" /\ step \in {16, 17} BY <1>5, AtLine DEF IngestReading
  <2> QED BY <1>5, <2>1 DEF IngestReading, NextLine
<1>6. CASE OffStatus
  <2>1. main = "go" /\ step = 13 BY <1>6, AtLine DEF OffStatus
  <2> QED BY <1>6, <2>1 DEF OffStatus, NextLine
<1>7. CASE OffAll
  <2>1. main = "go" /\ step = 19 BY <1>7, AtLine DEF OffAll
  <2> QED BY <1>7, <2>1 DEF OffAll
<1>8. CASE CountCall
  <2>1. main = "go" /\ step = 5 BY <1>8, AtLine DEF CountCall
  <2> QED BY <1>8, <2>1 DEF CountCall
<1>9. CASE IssueAsync
  <2>1. main = "issue" /\ UNCHANGED <<step, inScope, active, joined, casting>>
        /\ (main' = "go" \/ (main' = "rollBack" /\ turn' = turn))
    BY <1>9 DEF IssueAsync, CallAsync
  <2> QED BY <2>1
<1>10. CASE RollBack BY <1>10 DEF RollBack
<1>11. CASE LeaveAsync
  <2>1. main = "go" /\ step = 5 BY <1>11, AtLine DEF LeaveAsync
  <2>2. step' = 6 /\ main' = "go" /\ UNCHANGED <<active, joined, casting>>
    BY <1>11, <2>1 DEF LeaveAsync, NextLine
  <2> QED BY <2>1, <2>2
<1>12. CASE AcquirePermit
  <2>1. main = "go" /\ step = 6 BY <1>12, AtLine DEF AcquirePermit
  <2> QED BY <1>12, <2>1 DEF AcquirePermit
<1>13. CASE IssueFuture
  <2>1. main = "issueFuture" /\ main' = "go" /\ UNCHANGED <<step, active, joined, casting>>
    BY <1>13 DEF IssueFuture, CallAsync
  <2> QED BY <2>1
<1>14. CASE GetFutures
  <2>1. main = "go" /\ step = 6 BY <1>14, AtLine DEF GetFutures
  <2> QED BY <1>14, <2>1 DEF GetFutures, NextLine
<1>15. CASE CloseGate
  <2>1. main = "return" /\ active' = FALSE /\ step' = step /\ UNCHANGED <<joined, casting>>
        /\ (active => main' = "drain") /\ (~active => main' = "done")
    BY <1>15 DEF CloseGate
  <2>2. CASE active BY <2>1, <2>2
  <2>3. CASE ~active BY <1>15, <2>1, <2>3 DEF CloseGate
  <2> QED BY <2>2, <2>3
<1>16. CASE RequestShutdown
  <2>1. main = "drain" /\ main' = "hook" /\ UNCHANGED <<step, active, joined, casting>>
    BY <1>16 DEF RequestShutdown
  <2> QED BY <2>1
<1>17. CASE ShutdownAnswered BY <1>17 DEF ShutdownAnswered
<1>18. CASE Join BY <1>18 DEF Join
<1>19. CASE Land BY <1>19 DEF Land, Line
<1>20. CASE FreeCouriers BY <1>20 DEF FreeCouriers
<1>21. CASE CourierPoll
  <2>1. ring # <<>> /\ UNCHANGED <<scriptVars, inScope, active, joined, casting>>
    BY <1>21 DEF CourierPoll
  <2> QED BY <2>1 DEF Line
<1>22. CASE AsyncCourierPoll
  <2>1. asyncRing # <<>> /\ UNCHANGED <<scriptVars, inScope, active, joined, casting>>
    BY <1>22 DEF AsyncCourierPoll
  <2> QED BY <2>1 DEF Line
<1>23. CASE EventCourierPoll
  <2>1. eventRing # <<>> /\ ~joined /\ UNCHANGED <<scriptVars, inScope, active, joined>>
    BY <1>23 DEF EventCourierPoll
  <2> QED BY <2>1 DEF Line
<1>24. CASE RunListener
  <2>1. casting # <<>> /\ UNCHANGED <<scriptVars, inScope, active, joined>>
    BY <1>24 DEF RunListener
  <2> QED BY <2>1 DEF Line
<1>25. CASE RunCallback
  <2>1. landing # NoCall /\ UNCHANGED <<scriptVars, inScope, active, joined, casting>>
    BY <1>25 DEF RunCallback
  <2> QED BY <2>1 DEF Line
<1>26. CASE ReleasePermit
  <2>1. landing # NoCall /\ UNCHANGED <<scriptVars, inScope, active, joined, casting>>
    BY <1>26 DEF ReleasePermit
  <2> QED BY <2>1 DEF Line
<1>27. CASE SetValue
  <2>1. landing # NoCall /\ UNCHANGED <<scriptVars, inScope, active, joined, casting>>
    BY <1>27 DEF SetValue
  <2> QED BY <2>1 DEF Line
<1> QED
  BY <1>0, <1>1, <1>2, <1>3, <1>4, <1>5, <1>6, <1>7, <1>8, <1>9, <1>10, <1>11, <1>12, <1>13,
     <1>14, <1>15, <1>16, <1>17, <1>18, <1>19, <1>20, <1>21, <1>22, <1>23, <1>24, <1>25,
     <1>26, <1>27
  DEF Next, Main, Processing, Delivery, Callbacks, RespCourierPoll, Sweep

-----------------------------------------------------------------------------
(* The call ring: signals, and behind them at most the request that main() waits for *)

Bit(b) == IF b THEN 1 ELSE 0

Waits ==
    /\ slot = "free" <=> main \notin {"wait", "hook"}
    /\ slot = "busy" => /\ ring # <<>>
                        /\ ring[Len(ring)] = IF main = "wait" THEN Line ELSE <<"shutdown", 0>>
    /\ \A i \in 1 .. Len(ring) : (slot = "busy" /\ i = Len(ring)) \/ ring[i][1] = "ingest"

\* What the processing thread finds there: a signal, or the request and nothing else
LEMMA PollFinds ==
    ASSUME Types, Control, Waits, CourierPoll
    PROVE  \/ /\ Head(ring)[1] = "ingest" /\ HandleSignal(Head(ring)[2])
              /\ slot = "busy" => Len(ring) > 1
           \/ /\ slot = "busy" /\ Len(ring) = 1 /\ slot' \in {"ok", "error"}
              /\ Head(ring) = IF main = "wait" THEN Line ELSE <<"shutdown", 0>>
              /\ \/ main = "wait" /\ HandleRequest(Line[1], Line[2])
                 \/ main # "wait" /\ HandleShutdown
<1>1. ring # <<>> /\ ring \in Seq(Lines) BY DEF CourierPoll, Types
<1>2. Len(ring) > 0 /\ Head(ring) = ring[1] BY <1>1
<1>3. slot = "busy" => ring[Len(ring)][1] # "ingest"
  BY DEF Waits, Control, Blocking
<1>4. CASE ring[1][1] = "ingest"
  <2>1. HandleSignal(Head(ring)[2]) BY <1>2, <1>4 DEF CourierPoll
  <2>2. slot = "busy" => Len(ring) > 1 BY <1>1, <1>2, <1>3, <1>4
  <2> QED BY <1>2, <1>4, <2>1, <2>2
<1>5. CASE ring[1][1] # "ingest"
  <2>0. 1 \in 1 .. Len(ring) BY <1>1, <1>2
  <2>1. slot = "busy" /\ Len(ring) = 1 BY <2>0, <1>5 DEF Waits
  <2>2. Head(ring) = IF main = "wait" THEN Line ELSE <<"shutdown", 0>>
    BY <1>2, <2>1 DEF Waits
  <2>3. CASE main = "wait"
    <3>1. Line[1] \notin {"ingest", "shutdown"} BY <2>3 DEF Control, Blocking
    <3>2. HandleRequest(Line[1], Line[2]) BY <2>2, <2>3, <3>1 DEF CourierPoll
    <3> QED BY <2>1, <2>2, <2>3, <3>2 DEF HandleRequest
  <2>4. CASE main # "wait"
    <3>1. HandleShutdown BY <2>2, <2>4 DEF CourierPoll
    <3> QED BY <2>1, <2>2, <2>4, <3>1 DEF HandleShutdown
  <2> QED BY <2>3, <2>4
<1> QED BY <1>4, <1>5

LEMMA WaitsStep == Types /\ Control /\ Waits /\ [Next]_vars => Waits'
<1> SUFFICES ASSUME Types, Control, Waits, [Next]_vars PROVE Waits'
  OBVIOUS
<1>0. CASE UNCHANGED <<step, main, slot, ring>>
  BY <1>0 DEF Waits, Line
<1>1. CASE /\ main \notin {"wait", "hook"} /\ main' \notin {"wait", "hook"}
           /\ UNCHANGED <<slot, ring>>
  BY <1>1 DEF Waits
<1>2. CASE CreateContext \/ Subscribe \/ OffStatus \/ OffAll \/ CountCall
  BY <1>1, <1>2 DEF CreateContext, Subscribe, OffStatus, OffAll, CountCall, At, NextLine
<1>3. CASE Request
  <2>1. slot = "free" /\ slot' = "busy" /\ ring' = Append(ring, Line) /\ main' = "wait"
        /\ step' = step /\ Line \in Lines
    BY <1>3, AtLine DEF Request, Types
  <2>2. Line' = Line BY <2>1 DEF Line
  <2>3. ring' # <<>> /\ Len(ring') = Len(ring) + 1 /\ ring'[Len(ring')] = Line
        /\ \A i \in 1 .. Len(ring) : ring'[i] = ring[i]
    BY <2>1 DEF Types
  <2>4. \A i \in 1 .. Len(ring) : ring[i][1] = "ingest" BY <2>1 DEF Waits
  <2>5. Len(ring) \in Nat BY DEF Types
  <2> QED BY <2>1, <2>2, <2>3, <2>4, <2>5 DEF Waits
<1>4. CASE Answered
  <2>1. slot \in {"ok", "error"} /\ slot' = "free" /\ ring' = ring /\ main' \in {"go", "return"}
    BY <1>4 DEF Answered, NextLine
  <2> QED BY <2>1 DEF Waits
<1>5. CASE IngestReading
  <2>1. main = "go" /\ main' = "go" /\ slot' = slot /\ ring' = Append(ring, Line)
        /\ Line \in Lines /\ Line[1] = "ingest"
    BY <1>5, AtLine DEF IngestReading, Types, NextLine
  <2> QED BY <2>1 DEF Waits, Types
<1>6. CASE RollBack \/ LeaveAsync \/ AcquirePermit \/ GetFutures
  BY <1>1, <1>6 DEF RollBack, LeaveAsync, AcquirePermit, GetFutures, At, NextLine
<1>7. CASE IssueAsync \/ IssueFuture
  BY <1>1, <1>7 DEF IssueAsync, IssueFuture, CallAsync
<1>8. CASE CloseGate \/ Join
  BY <1>1, <1>8 DEF CloseGate, Join
<1>9. CASE RequestShutdown
  <2>1. slot = "free" /\ slot' = "busy" /\ main' = "hook" /\ <<"shutdown", 0>> \in Lines
        /\ ring' = Append(ring, <<"shutdown", 0>>)
    BY <1>9 DEF RequestShutdown, Lines
  <2> QED BY <2>1 DEF Waits, Types
<1>10. CASE ShutdownAnswered
  <2>1. slot = "ok" /\ slot' = "free" /\ ring' = ring /\ main' = "join"
    BY <1>10 DEF ShutdownAnswered
  <2> QED BY <2>1 DEF Waits
<1>11. CASE Land BY <1>0, <1>11 DEF Land
<1>12. CASE FreeCouriers BY <1>12 DEF FreeCouriers, Waits
<1>13. CASE CourierPoll
  <2>1. ring' = Tail(ring) /\ step' = step /\ main' = main /\ ring \in Seq(Lines)
        /\ ring # <<>>
    BY <1>13 DEF CourierPoll, Types
  <2>2. Line' = Line BY <2>1 DEF Line
  <2>3. CASE HandleSignal(Head(ring)[2]) /\ (slot = "busy" => Len(ring) > 1)
    <3>1. slot' = slot BY <2>3 DEF HandleSignal
    <3>2. Len(ring') = Len(ring) - 1 /\ Len(ring) \in Nat \ {0}
          /\ \A i \in 1 .. Len(ring') : ring'[i] = ring[i + 1]
      BY <2>1
    <3>3. ASSUME slot = "busy" PROVE ring' # <<>> /\ ring'[Len(ring')] = ring[Len(ring)]
      <4>1. Len(ring') \in 1 .. Len(ring') /\ Len(ring') + 1 = Len(ring)
        BY <2>3, <3>2, <3>3
      <4> QED BY <3>2, <4>1
    <3>4. \A i \in 1 .. Len(ring') : i + 1 \in 1 .. Len(ring) /\ (i + 1 = Len(ring) => i = Len(ring'))
      BY <3>2
    <3>5. \A i \in 1 .. Len(ring') : (slot' = "busy" /\ i = Len(ring')) \/ ring'[i][1] = "ingest"
      BY <3>1, <3>2, <3>4 DEF Waits
    <3>6. slot' = "busy" => /\ ring' # <<>>
                            /\ ring'[Len(ring')] = IF main' = "wait" THEN Line' ELSE <<"shutdown", 0>>
      BY <2>1, <2>2, <3>1, <3>3 DEF Waits
    <3>7. slot' = "free" <=> main' \notin {"wait", "hook"} BY <2>1, <3>1 DEF Waits
    <3> QED BY <3>5, <3>6, <3>7 DEF Waits
  <2>4. CASE slot = "busy" /\ Len(ring) = 1 /\ slot' \in {"ok", "error"}
    <3>1. Len(ring') = 0 BY <2>1, <2>4
    <3> QED BY <2>1, <2>4, <3>1 DEF Waits
  <2> QED BY <1>13, <2>3, <2>4, PollFinds
<1>14. CASE AsyncCourierPoll BY <1>0, <1>14 DEF AsyncCourierPoll
<1>15. CASE Delivery
  BY <1>0, <1>15 DEF Delivery, EventCourierPoll, RunListener, RespCourierPoll, Land, Callbacks,
                     RunCallback, ReleasePermit, SetValue
<1> QED
  BY <1>0, <1>2, <1>3, <1>4, <1>5, <1>6, <1>7, <1>8, <1>9, <1>10, <1>11, <1>12, <1>13,
     <1>14, <1>15
  DEF Next, Main, Processing, Sweep

-----------------------------------------------------------------------------
(* inFlight counts what is in the rings and the answer main() has not fetched; the readings *)
(* the provider has and those on their way are no more than main() has sent.                *)

InFlight == main # "done" =>
    inFlight = Len(asyncRing) + Len(ring) + Bit(slot \in {"ok", "error"})

\* Readings sent when s lines are through
Sent(s) == Bit(s >= 17) + Bit(s >= 18)

Readings ==
    /\ readings[1] + Len(ring) - Bit(slot = "busy") <= Sent(step)
    /\ payload[1] <= 2

LEMMA RingLengths ==
    ASSUME Types
    PROVE  /\ Len(ring) \in Nat /\ Len(asyncRing) \in Nat /\ Len(respRing) \in Nat
           /\ ring # <<>> => Len(Tail(ring)) = Len(ring) - 1
           /\ asyncRing # <<>> => Len(Tail(asyncRing)) = Len(asyncRing) - 1
           /\ respRing # <<>> => Len(Tail(respRing)) = Len(respRing) - 1
           /\ \A l \in Lines : Len(Append(ring, l)) = Len(ring) + 1
           /\ \A c \in Calls : Len(Append(asyncRing, c)) = Len(asyncRing) + 1
           /\ \A c \in Calls : Len(Append(respRing, c)) = Len(respRing) + 1
BY DEF Types

LEMMA InFlightStep == Types /\ Control /\ Waits /\ InFlight /\ [Next]_vars => InFlight'
<1> SUFFICES ASSUME Types, Control, Waits, InFlight, [Next]_vars PROVE InFlight'
  OBVIOUS
<1> USE DEF Bit
<1>0. CASE main # "done" /\ UNCHANGED <<inFlight, asyncRing, ring, slot>>
  BY <1>0 DEF InFlight
<1>1. CASE UNCHANGED vars BY <1>1 DEF InFlight
<1>2. CASE CreateContext \/ Subscribe \/ OffStatus \/ OffAll \/ CountCall
  BY <1>0, <1>2 DEF CreateContext, Subscribe, OffStatus, OffAll, CountCall, At
<1>3. CASE Request
  <2>1. main = "go" /\ slot = "free" /\ slot' = "busy" /\ inFlight' = inFlight + 1
        /\ Len(ring') = Len(ring) + 1 /\ asyncRing' = asyncRing
    BY <1>3, AtLine, RingLengths DEF Request, Types
  <2> QED BY <2>1, RingLengths DEF InFlight, Types
<1>4. CASE Answered
  <2>1. main = "wait" /\ slot \in {"ok", "error"} /\ slot' = "free" /\ inFlight' = inFlight - 1
        /\ ring' = ring /\ asyncRing' = asyncRing
    BY <1>4 DEF Answered
  <2> QED BY <2>1, RingLengths DEF InFlight, Types
<1>5. CASE IngestReading
  <2>1. main = "go" /\ slot' = slot /\ inFlight' = inFlight + 1
        /\ Len(ring') = Len(ring) + 1 /\ asyncRing' = asyncRing
    BY <1>5, AtLine, RingLengths DEF IngestReading, Types
  <2> QED BY <2>1, RingLengths DEF InFlight, Types
<1>6. CASE RollBack \/ LeaveAsync \/ AcquirePermit \/ GetFutures
  BY <1>0, <1>6 DEF RollBack, LeaveAsync, AcquirePermit, GetFutures, At
<1>7. CASE IssueAsync \/ IssueFuture
  <2>1. main # "done" /\ UNCHANGED <<ring, slot>> BY <1>7 DEF IssueAsync, IssueFuture, CallAsync
  <2>2. CASE ~Room
    <3>1. UNCHANGED <<inFlight, asyncRing>>
      BY <1>7, <2>2 DEF IssueAsync, IssueFuture, CallAsync
    <3> QED BY <1>0, <2>1, <3>1
  <2>3. CASE Room
    <3>1. <<"async", turn>> \in Calls /\ <<"future", turn>> \in Calls
      BY <1>7 DEF Types, Control, IssueAsync, IssueFuture, Calls, Devices
    <3>2. inFlight' = inFlight + 1 /\ \E c \in Calls : asyncRing' = Append(asyncRing, c)
      BY <1>7, <2>3, <3>1 DEF IssueAsync, IssueFuture, CallAsync
    <3> QED BY <2>1, <3>2, RingLengths DEF InFlight, Types
  <2> QED BY <2>2, <2>3
<1>8. CASE CloseGate
  BY <1>0, <1>8 DEF CloseGate
<1>9. CASE RequestShutdown
  <2>1. main = "drain" /\ slot = "free" /\ slot' = "busy" /\ inFlight' = inFlight + 1
        /\ Len(ring') = Len(ring) + 1 /\ asyncRing' = asyncRing
    BY <1>9, RingLengths DEF RequestShutdown, Lines
  <2> QED BY <2>1, RingLengths DEF InFlight, Types
<1>10. CASE ShutdownAnswered
  <2>1. main = "hook" /\ slot = "ok" /\ slot' = "free" /\ inFlight' = inFlight - 1
        /\ ring' = ring /\ asyncRing' = asyncRing
    BY <1>10 DEF ShutdownAnswered
  <2> QED BY <2>1, RingLengths DEF InFlight, Types
<1>11. CASE Land \/ Join BY <1>11 DEF Land, Join, InFlight
<1>12. CASE FreeCouriers BY <1>12 DEF FreeCouriers, InFlight
<1>13. CASE CourierPoll
  <2>1. main # "done" /\ Len(ring') = Len(ring) - 1 /\ UNCHANGED <<main, asyncRing>>
    BY <1>13, RingLengths DEF CourierPoll, Control, Empty
  <2>2. CASE HandleSignal(Head(ring)[2])
    <3>1. inFlight' = inFlight - 1 /\ slot' = slot BY <2>2 DEF HandleSignal
    <3> QED BY <2>1, <3>1, RingLengths DEF InFlight, Types
  <2>3. CASE slot = "busy" /\ slot' \in {"ok", "error"}
             /\ (HandleRequest(Line[1], Line[2]) \/ HandleShutdown)
    <3>1. inFlight' = inFlight BY <2>3 DEF HandleRequest, HandleShutdown
    <3> QED BY <2>1, <2>3, <3>1, RingLengths DEF InFlight, Types
  <2> QED BY <1>13, <2>2, <2>3, PollFinds
<1>14. CASE AsyncCourierPoll
  <2>1. main # "done" /\ Len(asyncRing') = Len(asyncRing) - 1 /\ inFlight' = inFlight - 1
        /\ UNCHANGED <<main, ring, slot>>
    BY <1>14, RingLengths DEF AsyncCourierPoll, Control, Empty
  <2> QED BY <2>1, RingLengths DEF InFlight, Types
<1>15. CASE Delivery
  BY <1>15 DEF InFlight, Delivery, EventCourierPoll, RunListener, RespCourierPoll, Land,
               Callbacks, RunCallback, ReleasePermit, SetValue
<1> QED
  BY <1>1, <1>2, <1>3, <1>4, <1>5, <1>6, <1>7, <1>8, <1>9, <1>10, <1>11, <1>12, <1>13,
     <1>14, <1>15
  DEF Next, Main, Processing, Sweep

LEMMA ReadingsStep == Types /\ Control /\ Waits /\ Readings /\ [Next]_vars => Readings'
<1> SUFFICES ASSUME Types, Control, Waits, Readings, [Next]_vars PROVE Readings'
  OBVIOUS
<1> USE DEF Bit
<1>0. CASE step' \in {step, step + 1} /\ UNCHANGED <<slot, payload, ring, readings>>
  <2>1. Sent(step) <= Sent(step') BY <1>0 DEF Sent, Types
  <2>2. Sent(step) \in Nat /\ Sent(step') \in Nat /\ readings[1] \in Nat BY DEF Sent, Types
  <2> QED BY <1>0, <2>1, <2>2, RingLengths DEF Readings
<1>1. CASE UNCHANGED vars BY <1>1 DEF Readings
<1>2. CASE CreateContext \/ Subscribe \/ OffStatus \/ OffAll \/ CountCall
  BY <1>0, <1>2 DEF CreateContext, Subscribe, OffStatus, OffAll, CountCall, NextLine
<1>3. CASE Request
  <2>1. slot = "free" /\ slot' = "busy" /\ Len(ring') = Len(ring) + 1
        /\ UNCHANGED <<step, payload, readings>>
    BY <1>3, AtLine, RingLengths DEF Request, Types
  <2>2. Sent(step) \in Nat /\ readings[1] \in Nat BY DEF Sent, Types
  <2> QED BY <2>1, <2>2, RingLengths DEF Readings
<1>4. CASE Answered
  <2>1. slot \in {"ok", "error"} /\ slot' = "free" /\ step' \in {step, step + 1}
        /\ UNCHANGED <<ring, payload, readings>>
    BY <1>4 DEF Answered, NextLine
  <2>2. Sent(step) <= Sent(step') BY <2>1 DEF Sent, Types
  <2>3. Sent(step) \in Nat /\ Sent(step') \in Nat /\ readings[1] \in Nat
    BY DEF Sent, Types
  <2> QED BY <2>1, <2>2, <2>3, RingLengths DEF Readings
<1>5. CASE IngestReading
  <2>1. step \in {16, 17} /\ step' = step + 1 /\ Len(ring') = Len(ring) + 1
        /\ UNCHANGED <<slot, payload, readings>>
    BY <1>5, AtLine, RingLengths DEF IngestReading, Types, NextLine
  <2>2. Sent(step') = Sent(step) + 1 BY <2>1 DEF Sent
  <2>3. Sent(step) \in Nat /\ readings[1] \in Nat BY DEF Sent, Types
  <2> QED BY <2>1, <2>2, <2>3, RingLengths DEF Readings
<1>6. CASE RollBack \/ LeaveAsync \/ AcquirePermit \/ GetFutures
  BY <1>0, <1>6 DEF RollBack, LeaveAsync, AcquirePermit, GetFutures, NextLine
<1>7. CASE IssueAsync \/ IssueFuture
  BY <1>0, <1>7 DEF IssueAsync, IssueFuture, CallAsync
<1>8. CASE CloseGate \/ Join
  BY <1>0, <1>8 DEF CloseGate, Join
<1>9. CASE RequestShutdown
  <2>1. slot = "free" /\ slot' = "busy" /\ Len(ring') = Len(ring) + 1
        /\ UNCHANGED <<step, payload, readings>>
    BY <1>9, RingLengths DEF RequestShutdown, Lines
  <2>2. Sent(step) \in Nat /\ readings[1] \in Nat BY DEF Sent, Types
  <2> QED BY <2>1, <2>2, RingLengths DEF Readings
<1>10. CASE ShutdownAnswered
  BY <1>10 DEF ShutdownAnswered, Readings
<1>11. CASE Land BY <1>0, <1>11 DEF Land
<1>12. CASE FreeCouriers
  <2>1. Len(ring') = 0 /\ UNCHANGED <<step, slot, payload, readings>> BY <1>12 DEF FreeCouriers
  <2>2. main = "sweep" BY <1>12 DEF FreeCouriers
  <2>3. slot = "free" BY <2>2 DEF Waits
  <2>4. Sent(step) \in Nat /\ readings[1] \in Nat BY DEF Sent, Types
  <2> QED BY <2>1, <2>3, <2>4, RingLengths DEF Readings
<1>13. CASE CourierPoll
  <2>1. Len(ring') = Len(ring) - 1 /\ step' = step
    BY <1>13, RingLengths DEF CourierPoll
  <2>4. Sent(step) \in 0 .. 2 /\ readings[1] \in Nat BY DEF Sent, Types
  <2>2. CASE HandleSignal(Head(ring)[2])
    <3>1. readings' = <<readings[1] + 1, Head(ring)[2]>> /\ UNCHANGED <<slot, payload>>
      BY <2>2 DEF HandleSignal
    <3>2. readings'[1] = readings[1] + 1 BY <3>1
    <3> QED BY <2>1, <2>4, <3>1, <3>2, RingLengths DEF Readings
  <2>3. CASE slot = "busy" /\ Len(ring) = 1 /\ slot' \in {"ok", "error"}
             /\ (HandleRequest(Line[1], Line[2]) \/ HandleShutdown)
    <3>1. readings' = readings /\ (payload' = readings \/ payload' = payload)
      BY <2>3 DEF HandleRequest, HandleShutdown
    <3>2. readings[1] <= 2 BY <2>3, <2>4 DEF Readings
    <3> QED BY <2>1, <2>3, <2>4, <3>1, <3>2, RingLengths DEF Readings
  <2> QED BY <1>13, <2>2, <2>3, PollFinds
<1>14. CASE AsyncCourierPoll BY <1>0, <1>14 DEF AsyncCourierPoll
<1>15. CASE Delivery
  BY <1>0, <1>15 DEF Delivery, EventCourierPoll, RunListener, RespCourierPoll, Land, Callbacks,
                     RunCallback, ReleasePermit, SetValue
<1> QED
  BY <1>1, <1>2, <1>3, <1>4, <1>5, <1>6, <1>7, <1>8, <1>9, <1>10, <1>11, <1>12, <1>13,
     <1>14, <1>15
  DEF Next, Main, Processing, Sweep

-----------------------------------------------------------------------------
(* A call is in one place, and the window bounds those that are queued *)


LEMMA RangeOfAppend ==
    ASSUME NEW S, NEW s \in Seq(S), NEW c \in S
    PROVE  /\ Range(Append(s, c)) = Range(s) \cup {c}
           /\ IsInjective(s) /\ c \notin Range(s) => IsInjective(Append(s, c))
<1> DEFINE t == Append(s, c)
<1>1. t \in Seq(S) /\ Len(t) = Len(s) + 1 /\ t[Len(s) + 1] = c /\ Len(s) \in Nat
      /\ \A i \in 1 .. Len(s) : t[i] = s[i]
  OBVIOUS
<1>2. DOMAIN t = 1 .. Len(s) + 1 /\ DOMAIN s = 1 .. Len(s) BY <1>1
<1>3. \A i \in 1 .. Len(s) + 1 : i \in 1 .. Len(s) \/ i = Len(s) + 1 BY <1>1
<1>4. \A i \in 1 .. Len(s) : i \in 1 .. Len(s) + 1 BY <1>1
<1>5. Len(s) + 1 \in 1 .. Len(s) + 1 BY <1>1
<1> HIDE DEF t
<1>6. Range(t) = Range(s) \cup {c} BY <1>1, <1>2, <1>3, <1>4, <1>5 DEF Range
<1>7. ASSUME IsInjective(s), c \notin Range(s) PROVE IsInjective(t)
  <2>1. SUFFICES ASSUME NEW i \in 1 .. Len(s) + 1, NEW j \in 1 .. Len(s) + 1, t[i] = t[j]
                 PROVE i = j
    BY <1>2 DEF IsInjective
  <2>2. \A k \in 1 .. Len(s) : s[k] # c BY <1>2, <1>7 DEF Range
  <2>3. \A k \in 1 .. Len(s) + 1 : k \in 1 .. Len(s) \/ k = Len(s) + 1 BY <1>1
  <2>4. CASE i = Len(s) + 1 BY <1>1, <2>1, <2>2, <2>3, <2>4
  <2>5. CASE j = Len(s) + 1 BY <1>1, <2>1, <2>2, <2>3, <2>5
  <2>6. CASE i \in 1 .. Len(s) /\ j \in 1 .. Len(s)
    BY <1>1, <1>2, <1>7, <2>1, <2>6 DEF IsInjective
  <2> QED BY <2>3, <2>4, <2>5, <2>6
<1> QED BY <1>6, <1>7 DEF t

LEMMA RangeOfTail ==
    ASSUME NEW S, NEW s \in Seq(S), s # <<>>
    PROVE  /\ Range(s) = Range(Tail(s)) \cup {Head(s)}
           /\ IsInjective(s) => IsInjective(Tail(s)) /\ Head(s) \notin Range(Tail(s))
<1> DEFINE t == Tail(s)
<1>1. t \in Seq(S) /\ Len(s) \in Nat \ {0} /\ Len(t) = Len(s) - 1 /\ Head(s) = s[1]
      /\ \A i \in 1 .. Len(t) : t[i] = s[i + 1]
  OBVIOUS
<1>2. DOMAIN t = 1 .. Len(t) /\ DOMAIN s = 1 .. Len(s) BY <1>1
<1> HIDE DEF t
<1>3. \A i \in 1 .. Len(t) : i + 1 \in 1 .. Len(s) /\ i + 1 # 1 BY <1>1
<1>4. \A i \in 1 .. Len(s) : i = 1 \/ (i - 1 \in 1 .. Len(t) /\ (i - 1) + 1 = i) BY <1>1
<1>5. 1 \in 1 .. Len(s) BY <1>1
<1>6. Range(s) = Range(t) \cup {s[1]}
  <2>1. ASSUME NEW x \in Range(s) PROVE x \in Range(t) \cup {s[1]}
    <3>1. PICK i \in 1 .. Len(s) : x = s[i] BY <1>2 DEF Range
    <3>2. i = 1 \/ (i - 1 \in 1 .. Len(t) /\ t[i - 1] = s[i]) BY <1>1, <1>4
    <3> QED BY <1>2, <3>1, <3>2 DEF Range
  <2>2. Range(t) \cup {s[1]} \subseteq Range(s) BY <1>1, <1>2, <1>3, <1>5 DEF Range
  <2> QED BY <2>1, <2>2
<1>7. ASSUME IsInjective(s) PROVE IsInjective(t)
  <2>1. \A i, j \in 1 .. Len(t) : i + 1 = j + 1 => i = j BY <1>1
  <2>2. SUFFICES ASSUME NEW i \in 1 .. Len(t), NEW j \in 1 .. Len(t), t[i] = t[j] PROVE i = j
    BY <1>2 DEF IsInjective
  <2>3. s[i + 1] = s[j + 1] BY <1>1, <2>2
  <2>4. i + 1 \in DOMAIN s /\ j + 1 \in DOMAIN s BY <1>2, <1>3
  <2>5. i + 1 = j + 1 BY <1>7, <2>3, <2>4 DEF IsInjective
  <2> QED BY <2>1, <2>5
<1>8. ASSUME IsInjective(s) PROVE s[1] \notin Range(t)
  <2>1. SUFFICES ASSUME NEW i \in 1 .. Len(t), t[i] = s[1] PROVE FALSE
    BY <1>2 DEF Range
  <2>2. i + 1 \in DOMAIN s /\ 1 \in DOMAIN s /\ i + 1 # 1 BY <1>2, <1>3, <1>5
  <2>3. s[i + 1] = s[1] BY <1>1, <2>1
  <2> QED BY <1>8, <2>2, <2>3 DEF IsInjective
<1> QED BY <1>1, <1>6, <1>7, <1>8 DEF t

LEMMA RangeOfEmpty == Range(<<>>) = {} /\ IsInjective(<<>>)
BY DEF Range, IsInjective

LEMMA FiniteCalls ==
    /\ IsFiniteSet(Calls) /\ IsFiniteSet(Devices) /\ Cardinality(Devices) = Last
    /\ \A S \in SUBSET Calls : IsFiniteSet(S)
<1>1. IsFiniteSet(Devices) /\ Cardinality(Devices) = Last
  BY FS_Interval DEF Devices
<1>2. IsFiniteSet({"async"}) /\ IsFiniteSet({"async"} \cup {"future"})
  BY FS_Singleton, FS_AddElement
<1>3. {"async"} \cup {"future"} = {"async", "future"} OBVIOUS
<1>4. IsFiniteSet(Calls) BY <1>1, <1>2, <1>3, FS_Product DEF Calls
<1> QED BY <1>1, <1>4, FS_Subset

LEMMA QueuedAreCalls ==
    ASSUME Types
    PROVE  /\ Queued \in SUBSET Calls /\ Outstanding \in SUBSET Calls
           /\ IsFiniteSet(Queued) /\ NoCall \notin Calls
<1>1. Range(asyncRing) \subseteq Calls /\ Range(respRing) \subseteq Calls
  BY DEF Types, Range
<1>2. Queued \in SUBSET Calls /\ Outstanding \in SUBSET Calls
  BY <1>1 DEF Queued, Outstanding, Types
<1>3. NoCall \notin Calls BY DEF NoCall, Calls
<1> QED BY <1>2, <1>3, FiniteCalls

\* main() has been at its issue
Begun(c) ==
    LET part == IF c[1] = "async" THEN 5 ELSE 6
    IN  step > part \/ (step = part /\ c[2] < turn)

Once ==
    /\ IsInjective(asyncRing) /\ IsInjective(respRing)
    /\ Range(asyncRing) \cap Range(respRing) = {}
    /\ landing \notin Queued
    /\ \A c \in Outstanding : Begun(c)

InWindow ==
    /\ depth \in 0 .. Window
    /\ main # "done" => depth = Len(asyncRing) + Len(respRing) /\ depth = Cardinality(Queued)

\* What is begun stays begun
LEMMA BegunStays ==
    ASSUME NEW c \in Calls, Types, Begun(c),
           step' = step + 1 \/ (step' = step /\ turn' \in Nat /\ turn' >= turn)
    PROVE  Begun(c)'
<1>1. c[2] \in Nat /\ step \in Nat /\ turn \in Nat BY DEF Calls, Devices, Types
<1> QED BY <1>1 DEF Begun

\* The four moves of a call: issued, answered, taken for delivery, through with its callback
LEMMA Issues ==
    ASSUME Types, Control, Once, NEW c \in Calls, ~Begun(c),
           asyncRing' = Append(asyncRing, c), UNCHANGED <<respRing, landing>>
    PROVE  /\ c \notin Outstanding
           /\ Queued' = Queued \cup {c} /\ Outstanding' = Outstanding \cup {c}
           /\ IsInjective(asyncRing') /\ Range(asyncRing') \cap Range(respRing') = {}
           /\ landing' \notin Queued'
<1>1. c \notin Outstanding BY DEF Once
<1>2. c \notin Range(asyncRing) /\ c \notin Range(respRing)
      /\ c # landing
  BY <1>1, QueuedAreCalls DEF Outstanding, Queued
<1>3. Range(asyncRing') = Range(asyncRing) \cup {c} /\ IsInjective(asyncRing')
  BY <1>2, RangeOfAppend DEF Types, Once
<1>4. Queued' = Queued \cup {c} BY <1>3 DEF Queued
<1>5. Outstanding' = Outstanding \cup {c} BY <1>4 DEF Outstanding
<1> QED BY <1>1, <1>2, <1>3, <1>4, <1>5 DEF Once

\* The call that a step of main() queues
Accepts(c) ==
    /\ asyncRing' = Append(asyncRing, c) /\ ~Begun(c)
    /\ \/ main = "issue" /\ step = 5 /\ c = <<"async", turn>>
       \/ main = "issueFuture" /\ step = 6 /\ c = <<"future", turn>>

LEMMA AcceptsOne ==
    ASSUME Types, Control, IssueAsync \/ IssueFuture, Room
    PROVE  \E c \in Calls : Accepts(c)
<1>1. CASE IssueAsync
  <2>1. turn \in Devices /\ step = 5 /\ main = "issue"
    BY <1>1 DEF Types, Control, IssueAsync, Devices
  <2>2. <<"async", turn>> \in Calls BY <2>1 DEF Calls
  <2>3. asyncRing' = Append(asyncRing, <<"async", turn>>) BY <1>1 DEF IssueAsync, CallAsync
  <2>4. ~Begun(<<"async", turn>>) BY <2>1 DEF Begun, Devices
  <2> QED BY <2>1, <2>2, <2>3, <2>4 DEF Accepts
<1>2. CASE IssueFuture
  <2>1. turn \in Devices /\ step = 6 /\ main = "issueFuture"
    BY <1>2 DEF Types, Control, IssueFuture, Devices
  <2>2. <<"future", turn>> \in Calls BY <2>1 DEF Calls
  <2>3. asyncRing' = Append(asyncRing, <<"future", turn>>) BY <1>2 DEF IssueFuture, CallAsync
  <2>4. ~Begun(<<"future", turn>>) BY <2>1 DEF Begun, Devices
  <2> QED BY <2>1, <2>2, <2>3, <2>4 DEF Accepts
<1> QED BY <1>1, <1>2

LEMMA Answers ==
    ASSUME Types, Control, Once, InWindow, AsyncCourierPoll
    PROVE  /\ depth' = depth /\ Len(asyncRing') + Len(respRing') = Len(asyncRing) + Len(respRing)
           /\ Queued' = Queued /\ Outstanding' = Outstanding
           /\ IsInjective(asyncRing') /\ IsInjective(respRing')
           /\ Range(asyncRing') \cap Range(respRing') = {}
           /\ UNCHANGED <<scriptVars, landing>> /\ main # "done"
<1>1. asyncRing # <<>> /\ asyncRing' = Tail(asyncRing) /\ UNCHANGED <<scriptVars, landing>>
  BY DEF AsyncCourierPoll
<1>2. main # "done" BY <1>1 DEF Control, Empty
<1>3. Len(respRing) < Window
  BY <1>1, <1>2, RingLengths DEF InWindow
<1>4. respRing' = Append(respRing, Head(asyncRing)) /\ depth' = depth
  BY <1>3 DEF AsyncCourierPoll
<1>5. Head(asyncRing) \in Calls BY <1>1 DEF Types
<1>6. Range(asyncRing) = Range(asyncRing') \cup {Head(asyncRing)} /\ IsInjective(asyncRing')
      /\ Head(asyncRing) \notin Range(asyncRing')
  BY <1>1, RangeOfTail DEF Types, Once
<1>7. Range(respRing') = Range(respRing) \cup {Head(asyncRing)}
      /\ (Head(asyncRing) \notin Range(respRing) => IsInjective(respRing'))
  BY <1>4, <1>5, RangeOfAppend DEF Types, Once
<1>8. Head(asyncRing) \notin Range(respRing) BY <1>6 DEF Once
<1>9. Queued' = Queued BY <1>6, <1>7 DEF Queued
<1>10. Outstanding' = Outstanding BY <1>1, <1>9 DEF Outstanding
<1>11. Len(asyncRing') + Len(respRing') = Len(asyncRing) + Len(respRing)
  BY <1>1, <1>4, <1>5, RingLengths
<1>12. Range(asyncRing') \cap Range(respRing') = {} BY <1>6, <1>7 DEF Once
<1> QED BY <1>1, <1>2, <1>4, <1>6, <1>7, <1>8, <1>9, <1>10, <1>11, <1>12

LEMMA Lands ==
    ASSUME Types, Control, Once, InWindow, Land
    PROVE  /\ depth' = depth - 1 /\ depth > 0
           /\ Len(asyncRing') + Len(respRing') = Len(asyncRing) + Len(respRing) - 1
           /\ landing' \in Queued /\ Queued' = Queued \ {landing'} /\ Outstanding' = Outstanding
           /\ IsInjective(asyncRing') /\ IsInjective(respRing')
           /\ Range(asyncRing') \cap Range(respRing') = {}
           /\ UNCHANGED scriptVars /\ main # "done" /\ landing = NoCall
<1>1. respRing # <<>> /\ respRing' = Tail(respRing) /\ landing' = Head(respRing)
      /\ landing = NoCall /\ depth' = depth - 1 /\ asyncRing' = asyncRing /\ UNCHANGED scriptVars
  BY DEF Land, Idle
<1>2. main # "done" BY <1>1 DEF Control, Empty
<1>3. depth > 0 /\ Len(asyncRing') + Len(respRing') = Len(asyncRing) + Len(respRing) - 1
  BY <1>1, <1>2, RingLengths DEF InWindow
<1>4. Range(respRing) = Range(respRing') \cup {landing'} /\ IsInjective(respRing')
      /\ landing' \notin Range(respRing')
  BY <1>1, RangeOfTail DEF Types, Once
<1>5. landing' \notin Range(asyncRing) BY <1>4 DEF Once
<1>6. landing' \in Queued /\ Queued' = Queued \ {landing'} BY <1>1, <1>4, <1>5 DEF Queued
<1>7. landing' \in Calls BY <1>6, QueuedAreCalls
<1>8. landing' # NoCall BY <1>7, QueuedAreCalls
<1>9. Outstanding' = Outstanding BY <1>1, <1>6, <1>8 DEF Outstanding
<1>10. Range(asyncRing') \cap Range(respRing') = {} BY <1>1, <1>4 DEF Once
<1>11. IsInjective(asyncRing') BY <1>1 DEF Once
<1> QED BY <1>1, <1>2, <1>3, <1>4, <1>6, <1>9, <1>10, <1>11

LEMMA Ends ==
    ASSUME Types, Control, Once, RunCallback \/ SetValue
    PROVE  /\ landing \in Calls /\ landing' = NoCall /\ UNCHANGED <<asyncVars, scriptVars>>
           /\ landing \in Outstanding /\ Outstanding' = Outstanding \ {landing}
           /\ Queued' = Queued /\ main # "done"
<1>1. landing # NoCall /\ landing' = NoCall /\ UNCHANGED <<asyncVars, scriptVars>>
  BY DEF RunCallback, SetValue
<1>2. Queued' = Queued BY <1>1 DEF Queued
<1>3. landing \in Calls BY <1>1 DEF Types
<1>4. main # "done" BY <1>1 DEF Control, Empty, Idle
<1>5. Outstanding' = Outstanding \ {landing} BY <1>1, <1>2, QueuedAreCalls DEF Outstanding, Once
<1>6. landing \in Outstanding BY <1>1 DEF Outstanding
<1> QED BY <1>1, <1>2, <1>3, <1>4, <1>5, <1>6

LEMMA OnceStep == Types /\ Control /\ Once /\ InWindow /\ [Next]_vars => Once'
<1> SUFFICES ASSUME Types, Control, Once, InWindow, [Next]_vars PROVE Once'
  OBVIOUS
<1>a. turn \in Nat BY DEF Types
<1>0. CASE /\ step' = step + 1 \/ (step' = step /\ turn' \in Nat /\ turn' >= turn)
           /\ UNCHANGED <<asyncRing, respRing, landing>>
  <2>1. Queued' = Queued /\ Outstanding' = Outstanding BY <1>0 DEF Queued, Outstanding
  <2>2. \A c \in Outstanding : Begun(c)' BY <1>0, BegunStays, QueuedAreCalls DEF Once
  <2> QED BY <1>0, <2>1, <2>2 DEF Once
<1>1. CASE UNCHANGED vars BY <1>0, <1>1, <1>a
<1>2. CASE CreateContext \/ Subscribe \/ OffStatus \/ OffAll \/ CountCall
  BY <1>0, <1>2, <1>a DEF CreateContext, Subscribe, OffStatus, OffAll, CountCall, NextLine
<1>3. CASE Request \/ Answered \/ IngestReading
  BY <1>0, <1>3, <1>a DEF Request, Answered, IngestReading, NextLine
<1>6. CASE RollBack \/ LeaveAsync \/ AcquirePermit \/ GetFutures
  BY <1>0, <1>6, <1>a DEF RollBack, LeaveAsync, AcquirePermit, GetFutures, NextLine
<1>7. CASE IssueAsync \/ IssueFuture
  <2>1. UNCHANGED <<step, respRing, landing>> /\ turn' \in {turn, turn + 1}
    BY <1>7 DEF IssueAsync, IssueFuture, CallAsync
  <2>2. CASE ~Room
    <3>1. asyncRing' = asyncRing BY <1>7, <2>2 DEF IssueAsync, IssueFuture, CallAsync
    <3> QED BY <1>0, <2>1, <3>1, <1>a
  <2>3. CASE Room
    <3>1. turn' = turn + 1 BY <1>7, <2>3 DEF IssueAsync, IssueFuture
    <3>2. PICK c \in Calls : Accepts(c) BY <1>7, <2>3, AcceptsOne
    <3>3. ~Begun(c) /\ asyncRing' = Append(asyncRing, c) BY <3>2 DEF Accepts
    <3>4. Outstanding' = Outstanding \cup {c}
          /\ IsInjective(asyncRing') /\ Range(asyncRing') \cap Range(respRing') = {}
          /\ landing' \notin Queued'
      BY <2>1, <3>3, Issues
    <3>5. \A x \in Outstanding : Begun(x)'
      BY <2>1, <3>1, <1>a, BegunStays, QueuedAreCalls DEF Once
    <3>6. Begun(c)' BY <2>1, <3>1, <3>2, <1>a DEF Begun, Accepts
    <3>7. IsInjective(respRing') BY <2>1 DEF Once
    <3>8. \A x \in Outstanding' : Begun(x)' BY <3>4, <3>5, <3>6
    <3> QED BY <3>4, <3>7, <3>8 DEF Once
  <2> QED BY <2>2, <2>3
<1>8. CASE CloseGate \/ RequestShutdown \/ ShutdownAnswered \/ Join
  BY <1>0, <1>8, <1>a DEF CloseGate, RequestShutdown, ShutdownAnswered, Join
<1>11. CASE Land
  <2>1. \A c \in Outstanding : Begun(c)'
    BY <1>11, <1>a, Lands, BegunStays, QueuedAreCalls DEF Once
  <2>2. landing' \notin Queued' BY <1>11, Lands
  <2>3. \A c \in Outstanding' : Begun(c)' BY <1>11, <2>1, Lands
  <2> QED BY <1>11, <2>2, <2>3, Lands DEF Once
<1>12. CASE FreeCouriers
  <2>1. asyncRing' = <<>> /\ respRing' = <<>> /\ landing' = NoCall /\ landing = NoCall
    BY <1>12 DEF FreeCouriers, Idle
  <2>2. Queued' = {} /\ Outstanding' = {} BY <2>1, RangeOfEmpty DEF Queued, Outstanding
  <2>3. IsInjective(asyncRing') /\ IsInjective(respRing') /\ Range(asyncRing') = {}
    BY <2>1, RangeOfEmpty
  <2> QED BY <2>2, <2>3 DEF Once
<1>13. CASE CourierPoll BY <1>0, <1>13, <1>a DEF CourierPoll
<1>14. CASE AsyncCourierPoll
  <2>1. \A c \in Outstanding : Begun(c)'
    BY <1>14, <1>a, Answers, BegunStays, QueuedAreCalls DEF Once
  <2>2. landing' \notin Queued' BY <1>14, Answers DEF Once
  <2>3. \A c \in Outstanding' : Begun(c)' BY <1>14, <2>1, Answers
  <2> QED BY <1>14, <2>2, <2>3, Answers DEF Once
<1>15. CASE RunCallback \/ SetValue
  <2>1. \A c \in Outstanding : Begun(c)'
    BY <1>15, <1>a, Ends, BegunStays, QueuedAreCalls DEF Once
  <2>2. landing' \notin Queued' BY <1>15, Ends, QueuedAreCalls
  <2>3. \A c \in Outstanding' : Begun(c)' BY <1>15, <2>1, Ends
  <2> QED BY <1>15, <2>2, <2>3, Ends DEF Once
<1>16. CASE EventCourierPoll \/ RunListener \/ ReleasePermit
  BY <1>0, <1>16, <1>a DEF EventCourierPoll, RunListener, ReleasePermit
<1> QED
  BY <1>1, <1>2, <1>3, <1>6, <1>7, <1>8, <1>11, <1>12, <1>13, <1>14, <1>15, <1>16
  DEF Next, Main, Processing, Sweep, Delivery, RespCourierPoll, Callbacks

LEMMA InWindowStep == Types /\ Control /\ Once /\ InWindow /\ [Next]_vars => InWindow'
<1> SUFFICES ASSUME Types, Control, Once, InWindow, [Next]_vars PROVE InWindow'
  OBVIOUS
<1>0. CASE (main' # "done" => main # "done") /\ UNCHANGED <<depth, asyncRing, respRing>>
  <2>1. Queued' = Queued BY <1>0 DEF Queued
  <2> QED BY <1>0, <2>1 DEF InWindow
<1>1. CASE UNCHANGED vars BY <1>0, <1>1
<1>2. CASE CreateContext \/ Subscribe \/ OffStatus \/ OffAll \/ CountCall
  BY <1>0, <1>2 DEF CreateContext, Subscribe, OffStatus, OffAll, CountCall, At
<1>3. CASE Request \/ Answered \/ IngestReading
  BY <1>0, <1>3 DEF Request, Answered, IngestReading, At
<1>6. CASE RollBack \/ LeaveAsync \/ AcquirePermit \/ GetFutures
  BY <1>0, <1>6 DEF RollBack, LeaveAsync, AcquirePermit, GetFutures, At
<1>7. CASE IssueAsync \/ IssueFuture
  <2>1. UNCHANGED <<respRing, landing>> /\ main # "done"
    BY <1>7 DEF IssueAsync, IssueFuture, CallAsync
  <2>2. CASE ~Room
    <3>1. UNCHANGED <<depth, asyncRing>> BY <1>7, <2>2 DEF IssueAsync, IssueFuture, CallAsync
    <3> QED BY <1>0, <2>1, <3>1
  <2>3. CASE Room
    <3>2. PICK c \in Calls : Accepts(c) BY <1>7, <2>3, AcceptsOne
    <3>3. ~Begun(c) /\ asyncRing' = Append(asyncRing, c) BY <3>2 DEF Accepts
    <3>4. c \notin Queued /\ Queued' = Queued \cup {c}
      BY <2>1, <3>3, Issues DEF Outstanding
    <3>5. Cardinality(Queued') = Cardinality(Queued) + 1
      BY <3>4, QueuedAreCalls, FS_AddElement
    <3>6. depth' = depth + 1 /\ depth < Window
      BY <1>7, <2>3 DEF IssueAsync, IssueFuture, CallAsync, Room
    <3>7. Len(asyncRing') = Len(asyncRing) + 1 BY <3>3, RingLengths
    <3> QED BY <2>1, <3>5, <3>6, <3>7, RingLengths DEF InWindow
  <2> QED BY <2>2, <2>3
<1>8. CASE CloseGate \/ RequestShutdown \/ ShutdownAnswered \/ Join
  BY <1>0, <1>8 DEF CloseGate, RequestShutdown, ShutdownAnswered, Join
<1>11. CASE Land
  <2>1. Cardinality(Queued') = Cardinality(Queued) - 1
    BY <1>11, Lands, QueuedAreCalls, FS_RemoveElement
  <2> QED BY <1>11, <2>1, Lands, RingLengths DEF InWindow
<1>12. CASE FreeCouriers
  BY <1>12 DEF FreeCouriers, InWindow
<1>13. CASE CourierPoll BY <1>0, <1>13 DEF CourierPoll
<1>14. CASE AsyncCourierPoll BY <1>14, Answers DEF InWindow
<1>15. CASE Callbacks BY <1>0, <1>15 DEF Callbacks, RunCallback, ReleasePermit, SetValue
<1>16. CASE EventCourierPoll \/ RunListener
  BY <1>0, <1>16 DEF EventCourierPoll, RunListener
<1> QED
  BY <1>1, <1>2, <1>3, <1>6, <1>7, <1>8, <1>11, <1>12, <1>13, <1>14, <1>15, <1>16
  DEF Next, Main, Processing, Sweep, Delivery, RespCourierPoll

-----------------------------------------------------------------------------
(* `pending` counts the asynchronous calls that are out *)

AsyncOut == Outstanding \cap ({"async"} \X Devices)

\* Calls are dropped only when the couriers are freed although the drain was given up
Kept == main # "done" \/ "drain" \notin gaveUp

Drained == "drain" \notin gaveUp /\ main \in {"hook", "join", "sweep", "done"} => asyncRing = <<>>

Counted ==
    /\ AsyncOut # {} => "async" \in gaveUp \/ (step = 5 /\ inScope)
    /\ Kept => pending = Cardinality(AsyncOut) + Bit(main \in {"issue", "rollBack"})
    /\ pending \in 0 .. Last

LEMMA DrainedStep ==
    Types /\ Control /\ Waits /\ InFlight /\ Drained /\ [Next]_vars => Drained'
<1> SUFFICES ASSUME Types, Control, Waits, InFlight, Drained, [Next]_vars PROVE Drained'
  OBVIOUS
<1> USE DEF Drained
<1>0. CASE main' \notin {"hook", "join", "sweep", "done"}
  BY <1>0
<1>1. CASE UNCHANGED vars BY <1>1
<1>2. CASE CreateContext \/ Subscribe \/ OffStatus \/ OffAll \/ CountCall
  BY <1>0, <1>2 DEF CreateContext, Subscribe, OffStatus, OffAll, CountCall, NextLine
<1>3. CASE Request \/ Answered \/ IngestReading
  BY <1>0, <1>3 DEF Request, Answered, IngestReading, NextLine
<1>6. CASE RollBack \/ LeaveAsync \/ AcquirePermit \/ GetFutures
  BY <1>0, <1>6 DEF RollBack, LeaveAsync, AcquirePermit, GetFutures, NextLine
<1>7. CASE IssueAsync \/ IssueFuture
  BY <1>0, <1>7 DEF IssueAsync, IssueFuture
<1>8. CASE CloseGate
  <2>1. CASE active BY <1>8, <2>1 DEF CloseGate
  <2>2. CASE ~active
    <3>1. step = 0 BY <1>8, <2>2 DEF CloseGate, Control, Types
    <3> QED BY <1>8, <3>1 DEF CloseGate, Control, Empty
  <2> QED BY <2>1, <2>2
<1>9. CASE RequestShutdown
  <2>1. main = "drain" /\ asyncRing' = asyncRing BY <1>9 DEF RequestShutdown
  <2>2. CASE inFlight > 0 BY <1>9, <2>2 DEF RequestShutdown
  <2>3. CASE ~(inFlight > 0)
    <3>1. Len(asyncRing) = 0 BY <2>1, <2>3, RingLengths DEF InFlight, Bit, Types
    <3> QED BY <2>1, <3>1 DEF Types
  <2> QED BY <2>2, <2>3
<1>10. CASE ShutdownAnswered \/ Join BY <1>10 DEF ShutdownAnswered, Join
<1>11. CASE Land BY <1>11 DEF Land
<1>12. CASE FreeCouriers BY <1>12 DEF FreeCouriers
<1>13. CASE CourierPoll BY <1>13 DEF CourierPoll
<1>14. CASE AsyncCourierPoll
  <2>1. asyncRing # <<>> /\ UNCHANGED <<main, gaveUp>> BY <1>14 DEF AsyncCourierPoll
  <2> QED BY <2>1
<1>15. CASE Callbacks BY <1>15 DEF Callbacks, RunCallback, ReleasePermit, SetValue
<1>16. CASE EventCourierPoll \/ RunListener BY <1>16 DEF EventCourierPoll, RunListener
<1> QED
  BY <1>1, <1>2, <1>3, <1>6, <1>7, <1>8, <1>9, <1>10, <1>11, <1>12, <1>13, <1>14, <1>15, <1>16
  DEF Next, Main, Processing, Sweep, Delivery, RespCourierPoll

LEMMA AsyncCalls ==
    ASSUME NEW A, A \subseteq {"async"} \X Devices
    PROVE  /\ IsFiniteSet(A) /\ Cardinality(A) \in 0 .. Last
           /\ \A c \in {"async"} \X Devices : c \notin A => Cardinality(A) + 1 \in 0 .. Last
<1>1. IsFiniteSet({"async"} \X Devices) /\ Cardinality({"async"} \X Devices) = Last
  <2>1. IsFiniteSet({"async"}) /\ Cardinality({"async"}) = 1 BY FS_Singleton
  <2>2. Cardinality({"async"} \X Devices) = 1 * Last /\ IsFiniteSet({"async"} \X Devices)
    BY <2>1, FiniteCalls, FS_Product
  <2> QED BY <2>2
<1>2. \A B \in SUBSET ({"async"} \X Devices) : IsFiniteSet(B) /\ Cardinality(B) \in 0 .. Last
  <2> TAKE B \in SUBSET ({"async"} \X Devices)
  <2>1. IsFiniteSet(B) /\ Cardinality(B) <= Last BY <1>1, FS_Subset
  <2> QED BY <2>1, FS_CardinalityType
<1>3. ASSUME NEW c \in {"async"} \X Devices, c \notin A
      PROVE  Cardinality(A) + 1 \in 0 .. Last
  <2>1. A \cup {c} \in SUBSET ({"async"} \X Devices) OBVIOUS
  <2>2. Cardinality(A \cup {c}) = Cardinality(A) + 1 BY <1>2, <1>3, FS_AddElement
  <2> QED BY <1>2, <2>1, <2>2
<1> QED BY <1>2, <1>3

LEMMA CountedStep ==
    Types /\ Control /\ Once /\ InWindow /\ Drained /\ Counted /\ [Next]_vars => Counted'
<1> SUFFICES ASSUME Types, Control, Once, InWindow, Drained, Counted, [Next]_vars
             PROVE  Counted'
  OBVIOUS
<1> USE DEF Bit
<1>a. AsyncOut \subseteq {"async"} \X Devices BY DEF AsyncOut
<1>b. IsFiniteSet(AsyncOut) /\ Cardinality(AsyncOut) \in 0 .. Last BY <1>a, AsyncCalls
<1>0. CASE /\ Outstanding' = Outstanding /\ UNCHANGED <<pending, gaveUp>>
           /\ UNCHANGED <<step, inScope>> \/ step # 5
           /\ main' \in {"issue", "rollBack"} <=> main \in {"issue", "rollBack"}
           /\ main = "done" => main' = "done"
  <2>1. AsyncOut' = AsyncOut BY <1>0 DEF AsyncOut
  <2> QED BY <1>0, <2>1 DEF Counted, Kept
<1>c. ASSUME UNCHANGED <<asyncRing, respRing, landing>> PROVE Outstanding' = Outstanding
  BY <1>c DEF Outstanding, Queued
<1>1. CASE UNCHANGED vars BY <1>0, <1>1, <1>c
<1>2. CASE CreateContext \/ Subscribe \/ OffStatus \/ OffAll
  <2>1. step # 5 BY <1>2, AtLine DEF CreateContext, Subscribe, OffStatus, OffAll, Types
  <2> QED BY <1>0, <1>2, <1>c, <2>1 DEF CreateContext, Subscribe, OffStatus, OffAll, NextLine, At
<1>3. CASE Request \/ IngestReading \/ AcquirePermit \/ GetFutures
  <2>1. step # 5 BY <1>3, AtLine DEF Request, IngestReading, AcquirePermit, GetFutures, Types
  <2> QED BY <1>0, <1>3, <1>c, <2>1
      DEF Request, IngestReading, AcquirePermit, GetFutures, NextLine, At
<1>4. CASE Answered
  <2>1. main = "wait" /\ step # 5 BY <1>4 DEF Answered, Control
  <2>2. main' \in {"go", "return"} /\ UNCHANGED <<pending, gaveUp, asyncRing, respRing, landing>>
    BY <1>4 DEF Answered, NextLine
  <2> QED BY <1>0, <1>c, <2>1, <2>2
<1>5. CASE CountCall
  <2>1. main = "go" /\ step = 5 /\ turn \in Devices
    BY <1>5, AtLine DEF CountCall, Types, Devices
  <2>2. inScope' = TRUE /\ pending' = pending + 1 /\ main' = "issue"
        /\ UNCHANGED <<step, gaveUp, asyncRing, respRing, landing>>
    BY <1>5 DEF CountCall
  <2>3. AsyncOut' = AsyncOut BY <1>c, <2>2 DEF AsyncOut
  <2>4. <<"async", turn>> \notin AsyncOut
    <3>1. ~Begun(<<"async", turn>>) BY <2>1 DEF Begun, Devices
    <3> QED BY <3>1 DEF Once, AsyncOut
  <2>5. Cardinality(AsyncOut) + 1 \in 0 .. Last BY <1>a, <2>1, <2>4, AsyncCalls
  <2>6. pending = Cardinality(AsyncOut) BY <1>b, <2>1 DEF Counted, Kept
  <2> QED BY <2>1, <2>2, <2>3, <2>5, <2>6 DEF Counted
<1>6. CASE RollBack
  <2>1. main = "rollBack" /\ main' = "go" /\ pending' = pending - 1
        /\ UNCHANGED <<step, inScope, gaveUp, asyncRing, respRing, landing>>
    BY <1>6 DEF RollBack
  <2>2. AsyncOut' = AsyncOut BY <1>c, <2>1 DEF AsyncOut
  <2>3. pending = Cardinality(AsyncOut) + 1 BY <2>1 DEF Counted, Kept
  <2> QED BY <1>b, <2>1, <2>2, <2>3 DEF Counted
<1>7. CASE LeaveAsync
  <2>1. main = "go" /\ step = 5 BY <1>7, AtLine DEF LeaveAsync, Types
  <2>2. main' = "go" /\ UNCHANGED <<pending, asyncRing, respRing, landing>>
    BY <1>7 DEF LeaveAsync, NextLine
  <2>3. AsyncOut' = AsyncOut BY <1>c, <2>2 DEF AsyncOut
  <2>4. pending = Cardinality(AsyncOut) BY <1>b, <2>1 DEF Counted, Kept
  <2>5. CASE pending > 0
    <3>1. "async" \in gaveUp' BY <1>7, <2>5 DEF LeaveAsync
    <3> QED BY <1>b, <2>1, <2>2, <2>3, <2>4, <3>1 DEF Counted
  <2>6. CASE ~(pending > 0)
    <3>1. AsyncOut = {} BY <1>b, <2>4, <2>6, FS_EmptySet
    <3> QED BY <1>b, <2>1, <2>2, <2>3, <2>4, <3>1 DEF Counted
  <2> QED BY <2>5, <2>6
<1>8. CASE IssueAsync \/ IssueFuture
  <2>1. /\ UNCHANGED <<step, countVars, respRing, landing>>
        /\ main = "issue" \/ (main = "issueFuture" /\ main' = "go")
    BY <1>8 DEF IssueAsync, IssueFuture, CallAsync
  <2>2. CASE ~Room
    <3>1. asyncRing' = asyncRing /\ (main = "issue" => main' = "rollBack")
      BY <1>8, <2>2 DEF IssueAsync, IssueFuture, CallAsync
    <3> QED BY <1>0, <1>c, <2>1, <3>1
  <2>3. CASE Room
    <3>1. main' = "go" BY <1>8, <2>3 DEF IssueAsync, IssueFuture
    <3>2. PICK c \in Calls : Accepts(c) BY <1>8, <2>3, AcceptsOne
    <3>3. c \notin Outstanding /\ Outstanding' = Outstanding \cup {c}
      BY <2>1, <3>2, Issues DEF Accepts
    <3>4. CASE main = "issue"
      <4>1. c \in {"async"} \X Devices BY <3>2, <3>4 DEF Accepts, Calls
      <4>2. AsyncOut' = AsyncOut \cup {c} /\ c \notin AsyncOut BY <3>3, <4>1 DEF AsyncOut
      <4>3. Cardinality(AsyncOut') = Cardinality(AsyncOut) + 1 BY <1>b, <4>2, FS_AddElement
      <4>4. pending = Cardinality(AsyncOut) + 1 BY <3>4 DEF Counted, Kept
      <4>5. step = 5 /\ inScope BY <3>4 DEF Control
      <4> QED BY <1>b, <2>1, <3>1, <4>3, <4>4, <4>5 DEF Counted
    <3>5. CASE main = "issueFuture"
      <4>1. c \notin {"async"} \X Devices BY <3>2, <3>5 DEF Accepts
      <4>2. AsyncOut' = AsyncOut BY <3>3, <4>1 DEF AsyncOut
      <4> QED BY <2>1, <3>1, <3>5, <4>2 DEF Counted, Kept
    <3> QED BY <2>1, <3>4, <3>5
  <2> QED BY <2>2, <2>3
<1>9. CASE CloseGate \/ ShutdownAnswered \/ Join
  BY <1>0, <1>9, <1>c DEF CloseGate, ShutdownAnswered, Join
<1>10. CASE RequestShutdown
  <2>1. main = "drain" /\ main' = "hook" /\ gaveUp \subseteq gaveUp'
        /\ UNCHANGED <<step, pending, inScope, asyncRing, respRing, landing>>
    BY <1>10 DEF RequestShutdown
  <2>2. AsyncOut' = AsyncOut BY <1>c, <2>1 DEF AsyncOut
  <2> QED BY <2>1, <2>2 DEF Counted, Kept
<1>11. CASE Land
  <2>1. UNCHANGED <<scriptVars, countVars>> BY <1>11 DEF Land
  <2> QED BY <1>0, <1>11, <2>1, Lands
<1>12. CASE FreeCouriers
  <2>1. main = "sweep" /\ main' = "done" /\ UNCHANGED <<step, countVars, landing>>
        /\ respRing = <<>> /\ respRing' = <<>> /\ asyncRing' = <<>> /\ landing = NoCall
    BY <1>12 DEF FreeCouriers, Idle
  <2>2. Outstanding' = {} BY <2>1, RangeOfEmpty DEF Outstanding, Queued
  <2>3. AsyncOut' = {} BY <2>2 DEF AsyncOut
  <2>4. CASE "drain" \in gaveUp BY <2>1, <2>3, <2>4 DEF Counted, Kept
  <2>5. CASE "drain" \notin gaveUp
    <3>1. asyncRing = <<>> BY <2>1, <2>5 DEF Drained
    <3>2. Outstanding' = Outstanding BY <1>c, <2>1, <3>1
    <3> QED BY <1>0, <2>1, <3>2
  <2> QED BY <2>4, <2>5
<1>13. CASE CourierPoll BY <1>0, <1>13, <1>c DEF CourierPoll
<1>14. CASE AsyncCourierPoll
  <2>1. UNCHANGED <<scriptVars, countVars>> BY <1>14 DEF AsyncCourierPoll
  <2> QED BY <1>0, <1>14, <2>1, Answers
<1>15. CASE RunCallback
  <2>1. landing[1] = "async" /\ pending' = pending - 1 /\ UNCHANGED <<scriptVars, inScope, gaveUp>>
    BY <1>15 DEF RunCallback
  <2>2. landing \in Outstanding /\ Outstanding' = Outstanding \ {landing} /\ main # "done"
        /\ landing \in Calls
    BY <1>15, Ends
  <2>3. landing \in AsyncOut BY <2>1, <2>2 DEF AsyncOut, Calls
  <2>4. AsyncOut' = AsyncOut \ {landing} BY <2>2 DEF AsyncOut
  <2>5. Cardinality(AsyncOut') = Cardinality(AsyncOut) - 1
    BY <1>b, <2>3, <2>4, FS_RemoveElement
  <2>6. IsFiniteSet(AsyncOut') BY <1>b, <2>4, FS_RemoveElement
  <2>7. Cardinality(AsyncOut') \in Nat BY <2>6, FS_CardinalityType
  <2> QED BY <1>b, <2>1, <2>2, <2>4, <2>5, <2>7 DEF Counted, Kept
<1>16. CASE SetValue
  <2>1. landing[1] = "future" /\ UNCHANGED <<scriptVars, countVars>>
    BY <1>16 DEF SetValue
  <2>2. Outstanding' = Outstanding \ {landing} BY <1>16, Ends
  <2>3. AsyncOut' = AsyncOut BY <2>1, <2>2 DEF AsyncOut
  <2> QED BY <2>1, <2>3 DEF Counted, Kept
<1>17. CASE EventCourierPoll \/ RunListener
  BY <1>0, <1>17, <1>c DEF EventCourierPoll, RunListener
<1>18. CASE ReleasePermit
  BY <1>0, <1>18, <1>c DEF ReleasePermit
<1> QED
  BY <1>1, <1>2, <1>3, <1>4, <1>5, <1>6, <1>7, <1>8, <1>9, <1>10, <1>11, <1>12, <1>13,
     <1>14, <1>15, <1>16, <1>17, <1>18
  DEF Next, Main, Processing, Sweep, Delivery, RespCourierPoll, Callbacks

-----------------------------------------------------------------------------
(* A permit is out for every future that is issued, and so there is room for the next *)

IssuedFutures == {d \in Devices : future[d] = "issued"}

Permits ==
    /\ \A d \in Devices : <<"future", d>> \in Queued => future[d] = "issued"
    /\ Kept => \A d \in Devices : future[d] = "issued" => <<"future", d>> \in Outstanding
    /\ \A d \in Devices : future[d] # "none" => step > 6 \/ (step = 6 /\ d < turn)
    /\ permits + Cardinality(IssuedFutures) + Bit(main = "issueFuture") = Window
    /\ FuturesNotRefused

LEMMA FiniteFutures == IsFiniteSet(IssuedFutures) /\ Cardinality(IssuedFutures) \in Nat
<1>1. IssuedFutures \in SUBSET Devices BY DEF IssuedFutures
<1> QED BY <1>1, FiniteCalls, FS_Subset, FS_CardinalityType

\* With a permit in hand, and the asynchronous calls through, the window has room
LEMMA RoomForFuture ==
    ASSUME Types, Control, Once, InWindow, Counted, Permits, main = "issueFuture",
           "async" \notin gaveUp
    PROVE  Room
<1>1. AsyncOut = {} BY DEF Counted, Control
<1>2. Queued \subseteq {"future"} \X IssuedFutures
  <2> SUFFICES ASSUME NEW c \in Queued PROVE c \in {"future"} \X IssuedFutures
    OBVIOUS
  <2>1. c \in Calls /\ c \in Outstanding BY QueuedAreCalls DEF Outstanding
  <2>2. PICK d \in Devices : c = <<"async", d>> \/ c = <<"future", d>> BY <2>1 DEF Calls
  <2>3. c = <<"future", d>> BY <1>1, <2>1, <2>2 DEF AsyncOut
  <2>4. d \in IssuedFutures BY <2>3 DEF Permits, IssuedFutures
  <2> QED BY <2>3, <2>4
<1>3. IsFiniteSet({"future"}) /\ Cardinality({"future"}) = 1 BY FS_Singleton
<1>4. IsFiniteSet({"future"} \X IssuedFutures)
      /\ Cardinality({"future"} \X IssuedFutures) = 1 * Cardinality(IssuedFutures)
  BY <1>3, FiniteFutures, FS_Product
<1>5. Cardinality(Queued) <= Cardinality(IssuedFutures)
  BY <1>2, <1>4, FiniteFutures, FS_Subset
<1>6. Cardinality(IssuedFutures) < Window
  BY FiniteFutures DEF Permits, Bit, Types
<1>7. depth = Cardinality(Queued) /\ depth \in Nat BY DEF InWindow
<1> QED BY <1>5, <1>6, <1>7, FiniteFutures DEF Room

LEMMA PermitsStep ==
    Types /\ Control /\ Once /\ InWindow /\ Drained /\ Counted /\ Permits /\ [Next]_vars => Permits'
<1> SUFFICES ASSUME Types, Control, Once, InWindow, Drained, Counted, Permits, [Next]_vars
             PROVE  Permits'
  OBVIOUS
<1> USE DEF Bit
<1>a. turn \in Nat /\ step \in Nat BY DEF Types
<1>0. CASE /\ Outstanding' = Outstanding /\ Queued' \subseteq Queued
           /\ UNCHANGED <<future, permits>> /\ gaveUp \subseteq gaveUp'
           /\ step' = step + 1 \/ (step' = step /\ turn' \in Nat /\ turn' >= turn)
           /\ main' = "issueFuture" <=> main = "issueFuture"
           /\ main = "done" => main' = "done"
  <2>1. IssuedFutures' = IssuedFutures BY <1>0 DEF IssuedFutures
  <2>2. FuturesNotRefused' BY <1>0 DEF Permits, FuturesNotRefused
  <2>3. \A d \in Devices : future'[d] # "none" => step' > 6 \/ (step' = 6 /\ d < turn')
    BY <1>0, <1>a DEF Permits, Devices
  <2>4. Kept' => Kept BY <1>0 DEF Kept
  <2>5. permits' + Cardinality(IssuedFutures') + Bit(main' = "issueFuture") = Window
    BY <1>0, <2>1 DEF Permits
  <2> QED BY <1>0, <2>2, <2>3, <2>4, <2>5 DEF Permits
<1>c. ASSUME UNCHANGED <<asyncRing, respRing, landing>>
      PROVE  Outstanding' = Outstanding /\ Queued' = Queued
  BY <1>c DEF Outstanding, Queued
<1>1. CASE UNCHANGED vars BY <1>0, <1>1, <1>c, <1>a
<1>2. CASE CreateContext \/ Subscribe \/ OffStatus \/ OffAll \/ CountCall
  BY <1>0, <1>2, <1>c, <1>a
  DEF CreateContext, Subscribe, OffStatus, OffAll, CountCall, NextLine, At
<1>3. CASE Request \/ IngestReading \/ Answered
  BY <1>0, <1>3, <1>c, <1>a DEF Request, IngestReading, Answered, NextLine, At
<1>4. CASE LeaveAsync
  <2>1. gaveUp \subseteq gaveUp' /\ main = "go" /\ main' = "go" /\ step' = step + 1
        /\ UNCHANGED <<future, permits, asyncRing, respRing, landing>>
    BY <1>4 DEF LeaveAsync, NextLine, At
  <2> QED BY <1>0, <1>c, <2>1
<1>5. CASE RollBack \/ GetFutures
  BY <1>0, <1>5, <1>c, <1>a DEF RollBack, GetFutures, NextLine, At
<1>6. CASE AcquirePermit
  <2>1. main = "go" /\ main' = "issueFuture" /\ permits' = permits - 1
        /\ UNCHANGED <<step, turn, gaveUp, future, asyncRing, respRing, landing>>
    BY <1>6 DEF AcquirePermit, At
  <2>2. IssuedFutures' = IssuedFutures BY <2>1 DEF IssuedFutures
  <2>3. FuturesNotRefused' BY <2>1 DEF Permits, FuturesNotRefused
  <2>4. Outstanding' = Outstanding /\ Queued' = Queued BY <1>c, <2>1
  <2>5. permits' + Cardinality(IssuedFutures') + Bit(main' = "issueFuture") = Window
    BY <2>1, <2>2, FiniteFutures DEF Permits, Types
  <2> QED BY <2>1, <2>3, <2>4, <2>5 DEF Permits, Kept
<1>7. CASE IssueAsync
  <2>1. main = "issue" /\ main' \in {"go", "rollBack"} /\ step' = step /\ turn' \in {turn, turn + 1}
        /\ UNCHANGED <<countVars, future, permits, respRing, landing>>
    BY <1>7 DEF IssueAsync, CallAsync
  <2>2. CASE ~Room
    <3>1. asyncRing' = asyncRing BY <1>7, <2>2 DEF IssueAsync, CallAsync
    <3> QED BY <1>0, <1>a, <1>c, <2>1, <3>1
  <2>3. CASE Room
    <3>1. PICK c \in Calls : Accepts(c) BY <1>7, <2>3, AcceptsOne
    <3>2. Queued' = Queued \cup {c} /\ Outstanding' = Outstanding \cup {c}
      BY <2>1, <3>1, Issues DEF Accepts
    <3>3. c[1] = "async" BY <2>1, <3>1 DEF Accepts
    <3>4. \A d \in Devices : <<"future", d>> \in Queued' <=> <<"future", d>> \in Queued
      BY <3>2, <3>3
    <3>5. IssuedFutures' = IssuedFutures BY <2>1 DEF IssuedFutures
    <3>6. FuturesNotRefused' BY <2>1 DEF Permits, FuturesNotRefused
    <3>7. \A d \in Devices : future'[d] # "none" => step' > 6 \/ (step' = 6 /\ d < turn')
      BY <2>1, <1>a DEF Permits, Devices
    <3>8. permits' + Cardinality(IssuedFutures') + Bit(main' = "issueFuture") = Window
      BY <2>1, <3>5 DEF Permits
    <3> QED BY <2>1, <3>2, <3>4, <3>6, <3>7, <3>8 DEF Permits, Kept
  <2> QED BY <2>2, <2>3
<1>8. CASE IssueFuture
  <2>1. /\ main = "issueFuture" /\ main' = "go" /\ step' = step /\ turn' = turn + 1
        /\ UNCHANGED <<countVars, respRing, landing>>
        /\ step = 6 /\ turn \in Devices
    BY <1>8 DEF IssueFuture, CallAsync, Control, Types, Devices
  <2>2. future[turn] = "none" BY <2>1 DEF Permits, Devices
  <2>3. future' = [future EXCEPT ![turn] = IF Room THEN "issued" ELSE "refused"]
    BY <1>8 DEF IssueFuture
  <2>4. future'[turn] = (IF Room THEN "issued" ELSE "refused")
        /\ \A d \in Devices : d # turn => future'[d] = future[d]
    BY <2>1, <2>3 DEF Types
  <2>5. \A d \in Devices : future'[d] # "none" => step' > 6 \/ (step' = 6 /\ d < turn')
    BY <2>1, <2>4 DEF Permits, Devices
  <2>6. CASE ~Room
    <3>1. asyncRing' = asyncRing /\ permits' = permits + 1 BY <1>8, <2>6 DEF IssueFuture, CallAsync
    <3>2. Outstanding' = Outstanding /\ Queued' = Queued BY <1>c, <2>1, <3>1
    <3>3. IssuedFutures' = IssuedFutures BY <2>2, <2>4, <2>6 DEF IssuedFutures
    <3>4. "async" \in gaveUp BY <2>1, <2>6, RoomForFuture
    <3>5. FuturesNotRefused' BY <2>1, <3>4 DEF FuturesNotRefused
    <3>6. permits' + Cardinality(IssuedFutures') + Bit(main' = "issueFuture") = Window
      BY <2>1, <3>1, <3>3, FiniteFutures DEF Permits, Types
    <3>7. \A d \in Devices : <<"future", d>> \in Queued => d # turn
      BY <2>2 DEF Permits
    <3>8. \A d \in Devices : future'[d] = "issued" => future[d] = "issued"
      BY <2>4, <2>6
    <3>9. \A d \in Devices : <<"future", d>> \in Queued' => future'[d] = "issued"
      BY <2>4, <3>2, <3>7 DEF Permits
    <3>10. Kept' => \A d \in Devices : future'[d] = "issued" => <<"future", d>> \in Outstanding'
      BY <2>1, <3>2, <3>8 DEF Permits, Kept
    <3> QED BY <2>5, <3>5, <3>6, <3>9, <3>10 DEF Permits
  <2>7. CASE Room
    <3>1. PICK c \in Calls : Accepts(c) BY <1>8, <2>7, AcceptsOne
    <3>2. Queued' = Queued \cup {c} /\ Outstanding' = Outstanding \cup {c}
      BY <2>1, <3>1, Issues DEF Accepts
    <3>3. c = <<"future", turn>> BY <2>1, <3>1 DEF Accepts
    <3>4. IssuedFutures' = IssuedFutures \cup {turn} /\ turn \notin IssuedFutures
      BY <2>1, <2>2, <2>4, <2>7 DEF IssuedFutures
    <3>5. Cardinality(IssuedFutures') = Cardinality(IssuedFutures) + 1
      BY <3>4, FiniteFutures, FS_AddElement
    <3>6. permits' = permits BY <1>8, <2>7 DEF IssueFuture
    <3>7. permits' + Cardinality(IssuedFutures') + Bit(main' = "issueFuture") = Window
      BY <2>1, <3>5, <3>6, FiniteFutures DEF Permits, Types
    <3>8. FuturesNotRefused' BY <2>1, <2>4, <2>7 DEF Permits, FuturesNotRefused
    <3>9. \A d \in Devices : <<"future", d>> \in Queued' => future'[d] = "issued"
      BY <2>4, <2>7, <3>2, <3>3 DEF Permits
    <3>10. Kept' => \A d \in Devices : future'[d] = "issued" => <<"future", d>> \in Outstanding'
      BY <2>1, <2>4, <3>2, <3>3 DEF Permits, Kept
    <3> QED BY <2>5, <3>7, <3>8, <3>9, <3>10 DEF Permits
  <2> QED BY <2>6, <2>7
<1>9. CASE CloseGate \/ ShutdownAnswered \/ Join
  BY <1>0, <1>9, <1>c, <1>a DEF CloseGate, ShutdownAnswered, Join
<1>10. CASE RequestShutdown
  <2>1. main = "drain" /\ main' = "hook" /\ gaveUp \subseteq gaveUp'
        /\ UNCHANGED <<step, turn, future, permits, asyncRing, respRing, landing>>
    BY <1>10 DEF RequestShutdown
  <2> QED BY <1>0, <1>c, <1>a, <2>1
<1>11. CASE Land
  <2>1. UNCHANGED <<scriptVars, countVars, futureVars>> BY <1>11 DEF Land
  <2>2. Queued' \subseteq Queued /\ Outstanding' = Outstanding BY <1>11, Lands
  <2> QED BY <1>0, <1>a, <2>1, <2>2
<1>12. CASE FreeCouriers
  <2>1. main = "sweep" /\ main' = "done" /\ UNCHANGED <<step, turn, countVars, landing, futureVars>>
        /\ respRing = <<>> /\ respRing' = <<>> /\ asyncRing' = <<>> /\ landing = NoCall
    BY <1>12 DEF FreeCouriers, Idle
  <2>2. Queued' = {} BY <2>1, RangeOfEmpty DEF Queued
  <2>3. CASE "drain" \in gaveUp
    <3>1. IssuedFutures' = IssuedFutures BY <2>1 DEF IssuedFutures
    <3>2. FuturesNotRefused' BY <2>1 DEF Permits, FuturesNotRefused
    <3>3. ~Kept' BY <2>1, <2>3 DEF Kept
    <3>4. permits' + Cardinality(IssuedFutures') + Bit(main' = "issueFuture") = Window
      BY <2>1, <3>1 DEF Permits
    <3>5. \A d \in Devices : future'[d] # "none" => step' > 6 \/ (step' = 6 /\ d < turn')
      BY <2>1 DEF Permits
    <3> QED BY <2>2, <3>2, <3>3, <3>4, <3>5 DEF Permits
  <2>4. CASE "drain" \notin gaveUp
    <3>1. asyncRing = <<>> BY <2>1, <2>4 DEF Drained
    <3>2. Outstanding' = Outstanding /\ Queued' = Queued BY <1>c, <2>1, <3>1
    <3> QED BY <1>0, <1>a, <2>1, <3>2
  <2> QED BY <2>3, <2>4
<1>13. CASE CourierPoll BY <1>0, <1>13, <1>c, <1>a DEF CourierPoll
<1>14. CASE AsyncCourierPoll
  <2>1. UNCHANGED <<scriptVars, countVars, futureVars>> BY <1>14 DEF AsyncCourierPoll
  <2>2. Queued' = Queued /\ Outstanding' = Outstanding BY <1>14, Answers
  <2> QED BY <1>0, <1>a, <2>1, <2>2
<1>15. CASE RunCallback
  <2>1. landing[1] = "async" /\ UNCHANGED <<scriptVars, gaveUp, futureVars>>
    BY <1>15 DEF RunCallback
  <2>2. Queued' = Queued /\ Outstanding' = Outstanding \ {landing} BY <1>15, Ends
  <2>3. \A d \in Devices : <<"future", d>> \in Outstanding => <<"future", d>> \in Outstanding'
    BY <2>1, <2>2
  <2>4. IssuedFutures' = IssuedFutures BY <2>1 DEF IssuedFutures
  <2>5. FuturesNotRefused' BY <2>1 DEF Permits, FuturesNotRefused
  <2>6. permits' + Cardinality(IssuedFutures') + Bit(main' = "issueFuture") = Window
    BY <2>1, <2>4 DEF Permits
  <2> QED BY <2>1, <2>2, <2>3, <2>5, <2>6 DEF Permits, Kept
<1>16. CASE ReleasePermit
  <2>1. /\ landing # NoCall /\ landing[1] = "future" /\ future[landing[2]] = "issued"
        /\ permits' = permits + 1 /\ future' = [future EXCEPT ![landing[2]] = "released"]
        /\ UNCHANGED <<scriptVars, countVars, asyncRing, respRing, landing>>
    BY <1>16 DEF ReleasePermit
  <2>2. PICK d \in Devices : landing = <<"future", d>> BY <2>1 DEF Types, Calls
  <2>3. future'[d] = "released" /\ \A x \in Devices : x # d => future'[x] = future[x]
    BY <2>1, <2>2 DEF Types
  <2>4. Outstanding' = Outstanding /\ Queued' = Queued BY <1>c, <2>1
  <2>5. IssuedFutures' = IssuedFutures \ {d} /\ d \in IssuedFutures
    BY <2>1, <2>2, <2>3 DEF IssuedFutures
  <2>6. Cardinality(IssuedFutures') = Cardinality(IssuedFutures) - 1
    BY <2>5, FiniteFutures, FS_RemoveElement
  <2>7. permits' + Cardinality(IssuedFutures') + Bit(main' = "issueFuture") = Window
    BY <2>1, <2>6, FiniteFutures DEF Permits, Types
  <2>8. <<"future", d>> \notin Queued BY <2>2 DEF Once
  <2>9. FuturesNotRefused' BY <2>1, <2>3 DEF Permits, FuturesNotRefused
  <2>10. \A x \in Devices : future'[x] # "none" => step' > 6 \/ (step' = 6 /\ x < turn')
    BY <2>1, <2>2, <2>3 DEF Permits
  <2>11. \A x \in Devices : <<"future", x>> \in Queued' => future'[x] = "issued"
    BY <2>3, <2>4, <2>8 DEF Permits
  <2>12. Kept' => \A x \in Devices : future'[x] = "issued" => <<"future", x>> \in Outstanding'
    BY <2>1, <2>3, <2>4 DEF Permits, Kept
  <2> QED BY <2>7, <2>9, <2>10, <2>11, <2>12 DEF Permits
<1>17. CASE SetValue
  <2>1. /\ landing # NoCall /\ landing[1] = "future" /\ future[landing[2]] = "released"
        /\ future' = [future EXCEPT ![landing[2]] = "ready"]
        /\ UNCHANGED <<scriptVars, countVars, permits>>
    BY <1>17 DEF SetValue
  <2>2. PICK d \in Devices : landing = <<"future", d>> BY <2>1 DEF Types, Calls
  <2>3. future'[d] = "ready" /\ \A x \in Devices : x # d => future'[x] = future[x]
    BY <2>1, <2>2 DEF Types
  <2>4. Outstanding' = Outstanding \ {landing} /\ Queued' = Queued BY <1>17, Ends
  <2>5. IssuedFutures' = IssuedFutures
    BY <2>1, <2>2, <2>3 DEF IssuedFutures
  <2>7. permits' + Cardinality(IssuedFutures') + Bit(main' = "issueFuture") = Window
    BY <2>1, <2>5 DEF Permits
  <2>8. <<"future", d>> \notin Queued BY <2>2 DEF Once
  <2>9. FuturesNotRefused' BY <2>1, <2>3 DEF Permits, FuturesNotRefused
  <2>10. \A x \in Devices : future'[x] # "none" => step' > 6 \/ (step' = 6 /\ x < turn')
    BY <2>1, <2>2, <2>3 DEF Permits
  <2>11. \A x \in Devices : <<"future", x>> \in Queued' => future'[x] = "issued"
    BY <2>3, <2>4, <2>8 DEF Permits
  <2>12. Kept' => \A x \in Devices : future'[x] = "issued" => <<"future", x>> \in Outstanding'
    BY <2>1, <2>2, <2>3, <2>4 DEF Permits, Kept
  <2> QED BY <2>7, <2>9, <2>10, <2>11, <2>12 DEF Permits
<1>18. CASE EventCourierPoll \/ RunListener
  BY <1>0, <1>18, <1>c, <1>a DEF EventCourierPoll, RunListener
<1> QED
  BY <1>1, <1>2, <1>3, <1>4, <1>5, <1>6, <1>7, <1>8, <1>9, <1>10, <1>11, <1>12, <1>13,
     <1>14, <1>15, <1>16, <1>17, <1>18
  DEF Next, Main, Processing, Sweep, Delivery, RespCourierPoll, Callbacks

-----------------------------------------------------------------------------
(* What the listeners hear *)

Batch == <<"batch", 0>>

\* The listener of discovered devices has run for d, or is about to
HeardOf(d) ==
    \/ <<"count", <<"discovered", d>>>> \in heard
    \/ casting # <<>> /\ casting[1] = <<"discovered", d>> /\ "count" \in casting[2]

BatchComesLast ==
    /\ listeners["discovered"] = listeners["batch"] /\ listeners["batch"] \subseteq {"count"}
    /\ listeners["batch"] # {} =>
         \A i \in 1 .. Len(eventRing) : eventRing[i] = Batch =>
           \A d \in Devices : HeardOf(d) \/ \E j \in 1 .. i - 1 : eventRing[j] = <<"discovered", d>>
    /\ casting # <<>> /\ casting[1] = Batch =>
         \A d \in Devices : <<"count", <<"discovered", d>>>> \in heard
    /\ <<"count", Batch>> \in heard =>
         \A d \in Devices : <<"count", <<"discovered", d>>>> \in heard

RemovedIsDeaf ==
    /\ step > 13 => "count" \notin listeners["status"]
    /\ \A i \in 1 .. Len(eventRing) :
         eventRing[i] = <<"status", 2>> => "count" \notin listeners["status"]
    /\ casting # <<>> /\ casting[1] = <<"status", 2>> => "count" \notin casting[2]
    /\ <<"count", <<"status", 2>>>> \notin heard

\* The batch behind every device, and a status of device 2 only from its removal
Shaped(es, op, d) ==
    \A i \in 1 .. Len(es) :
      /\ es[i] = Batch => \A x \in Devices : \E j \in 1 .. i - 1 : es[j] = <<"discovered", x>>
      /\ es[i] = <<"status", 2>> => op = "remove" /\ d = 2

LEMMA EmitsShape ==
    ASSUME Types, listeners["discovered"] = listeners["batch"], NEW op, NEW d, Known(op, d)
    PROVE  Shaped(Emits(op, d), op, d)
<1> USE DEF Batch, Shaped
<1>1. CASE op = "add"
  <2>1. CASE listeners["batch"] = {}
    <3>1. Emits(op, d) = <<>> \o <<>> BY <1>1, <2>1 DEF Emits, Adds, Queue
    <3> QED BY <3>1
  <2>2. CASE listeners["batch"] # {}
    <3>1. PICK ds : ds = Discovered OBVIOUS
    <3>2. ds \in Seq(Events) /\ Len(ds) = Last /\ \A x \in 1 .. Last : ds[x] = <<"discovered", x>>
      BY <3>1 DEF Discovered, Events, Devices
    <3>3. <<Batch>> \in Seq(Events) /\ Len(<<Batch>>) = 1 /\ <<Batch>>[1] = Batch BY DEF Events
    <3>4. PICK es : es = ds \o <<Batch>> OBVIOUS
    <3>5. Emits(op, d) = es BY <1>1, <2>2, <3>1, <3>4 DEF Emits, Adds, Queue
    <3>6. Len(es) = Last + 1 /\ es[Last + 1] = Batch /\ \A x \in 1 .. Last : es[x] = <<"discovered", x>>
      BY <3>2, <3>3, <3>4
    <3>7. \A i \in 1 .. Len(es) : i \in 1 .. Last \/ i = Last + 1 BY <3>6
    <3>8. \A x \in Devices : x \in 1 .. (Last + 1) - 1 /\ es[x] = <<"discovered", x>>
      BY <3>6 DEF Devices
    <3> QED BY <3>5, <3>6, <3>7, <3>8
  <2> QED BY <2>1, <2>2
<1>2. CASE op = "remove"
  <2>1. Emits(op, d) = <<>> \/ Emits(op, d) = << <<"status", d>> >> BY <1>2 DEF Emits, Queue
  <2> QED BY <1>2, <2>1
<1>3. CASE op = "sensor"
  <2>1. Emits(op, d) = <<>> \/ Emits(op, d) = << <<"alert", d>> >> BY <1>3 DEF Emits, Queue
  <2> QED BY <1>3, <2>1
<1>4. CASE op \notin {"add", "remove", "sensor"}
  <2>1. Emits(op, d) = <<>> BY <1>4 DEF Emits
  <2> QED BY <2>1
<1> QED BY <1>1, <1>2, <1>3, <1>4

\* What the processing thread does to the event ring
LEMMA PollEmits ==
    ASSUME Types, Control, Waits, listeners["discovered"] = listeners["batch"], CourierPoll
    PROVE  \/ eventRing' = eventRing
           \/ \E es \in Seq(Events) :
                /\ eventRing' = eventRing \o es
                /\ \A i \in 1 .. Len(es) :
                     /\ es[i] = Batch =>
                          \A x \in Devices : \E j \in 1 .. i - 1 : es[j] = <<"discovered", x>>
                     /\ es[i] = <<"status", 2>> => step > 13
<1>1. CASE HandleSignal(Head(ring)[2]) \/ HandleShutdown
  BY <1>1 DEF HandleSignal, HandleShutdown
<1>2. CASE main = "wait" /\ HandleRequest(Line[1], Line[2])
  <2>1. CASE ~Known(Line[1], Line[2]) BY <1>2, <2>1 DEF HandleRequest
  <2>2. CASE Known(Line[1], Line[2])
    <3>1. PICK es \in Seq(Events) : es = Emits(Line[1], Line[2])
      BY <2>2, EmitsType DEF Types
    <3>2. eventRing' = eventRing \o es BY <1>2, <2>2, <3>1 DEF HandleRequest
    <3>3. Line[1] = "remove" /\ Line[2] = 2 => step > 13
      <4>1. Line \in Lines /\ step \in 2 .. 18 BY <1>2 DEF Control
      <4>2. Place(Line, step)
        <5>1. step \in 0 .. 19 BY <4>1
        <5>2. Place(Script[step + 1], step) BY <5>1, Places
        <5> QED BY <5>2 DEF Line
      <4>3. ASSUME Line[1] = "remove", Line[2] = 2 PROVE step > 13
        <5>1. Line = <<"remove", 2>> BY <4>1, <4>3 DEF Lines
        <5> QED BY <4>2, <5>1 DEF Place
      <4> QED BY <4>3
    <3>4. Shaped(es, Line[1], Line[2])
      <4>1. PICK op, d : op = Line[1] /\ d = Line[2] OBVIOUS
      <4>2. Known(op, d) /\ es = Emits(op, d) BY <2>2, <3>1, <4>1
      <4>3. Shaped(Emits(op, d), op, d) BY <4>2, EmitsShape
      <4> QED BY <4>1, <4>2, <4>3
    <3> QED BY <3>2, <3>3, <3>4 DEF Shaped
  <2> QED BY <2>1, <2>2
<1> QED BY <1>1, <1>2, PollFinds

LEMMA BatchStep == Types /\ Control /\ Waits /\ BatchComesLast /\ [Next]_vars => BatchComesLast'
<1> SUFFICES ASSUME Types, Control, Waits, BatchComesLast, [Next]_vars PROVE BatchComesLast'
  OBVIOUS
<1>0. CASE /\ UNCHANGED <<eventRing, casting, heard>>
           /\ \/ listeners'["batch"] = {} /\ listeners'["discovered"] = {}
              \/ /\ listeners'["batch"] = listeners["batch"]
                 /\ listeners'["discovered"] = listeners["discovered"]
  <2>1. \A d \in Devices : HeardOf(d)' <=> HeardOf(d) BY <1>0 DEF HeardOf
  <2> QED BY <1>0, <2>1 DEF BatchComesLast, Batch
<1>1. CASE UNCHANGED vars BY <1>0, <1>1
<1>2. CASE CreateContext \/ Request \/ Answered \/ IngestReading
  BY <1>0, <1>2 DEF CreateContext, Request, Answered, IngestReading
<1>3. CASE Subscribe
  <2>1. step = 1 BY <1>3, AtLine DEF Subscribe, Types
  <2>2. eventRing = <<>> /\ casting = <<>> BY <2>1 DEF Control, Empty, Idle
  <2>3. listeners'["batch"] = {"count"} /\ listeners'["discovered"] = {"count"}
        /\ UNCHANGED <<eventRing, casting, heard>>
    BY <1>3 DEF Subscribe, Topics
  <2> QED BY <2>2, <2>3 DEF BatchComesLast, Batch
<1>4. CASE OffStatus
  BY <1>0, <1>4 DEF OffStatus, Types, Topics
<1>5. CASE OffAll \/ CloseGate
  BY <1>0, <1>5 DEF OffAll, CloseGate, Topics
<1>6. CASE CountCall \/ RollBack \/ LeaveAsync \/ AcquirePermit \/ GetFutures
  BY <1>0, <1>6 DEF CountCall, RollBack, LeaveAsync, AcquirePermit, GetFutures
<1>7. CASE IssueAsync \/ IssueFuture
  BY <1>0, <1>7 DEF IssueAsync, IssueFuture, CallAsync
<1>8. CASE RequestShutdown \/ ShutdownAnswered \/ Join \/ Land
  BY <1>0, <1>8 DEF RequestShutdown, ShutdownAnswered, Join, Land
<1>9. CASE FreeCouriers
  <2>1. eventRing' = <<>> /\ UNCHANGED <<listeners, casting, heard>>
    BY <1>9 DEF FreeCouriers
  <2> QED BY <2>1 DEF BatchComesLast, Batch
<1>10. CASE CourierPoll
  <2>1. UNCHANGED <<listeners, casting, heard>> BY <1>10 DEF CourierPoll
  <2>2. \A d \in Devices : HeardOf(d)' <=> HeardOf(d) BY <2>1 DEF HeardOf
  <2>3. CASE eventRing' = eventRing BY <1>0, <2>1, <2>3
  <2>4. ASSUME NEW es \in Seq(Events), eventRing' = eventRing \o es,
               \A i \in 1 .. Len(es) : es[i] = Batch =>
                 \A x \in Devices : \E j \in 1 .. i - 1 : es[j] = <<"discovered", x>>
        PROVE  BatchComesLast'
    <3> DEFINE n == Len(eventRing)
    <3>1. /\ n \in Nat /\ Len(es) \in Nat /\ Len(eventRing') = n + Len(es)
          /\ \A i \in 1 .. n : eventRing'[i] = eventRing[i]
          /\ \A i \in 1 .. Len(es) : eventRing'[n + i] = es[i]
      BY <2>4 DEF Types
    <3> HIDE DEF n
    <3>2. ASSUME listeners["batch"] # {}, NEW i \in 1 .. Len(eventRing'), eventRing'[i] = Batch,
                 NEW d \in Devices
          PROVE  HeardOf(d) \/ \E j \in 1 .. i - 1 : eventRing'[j] = <<"discovered", d>>
      <4>1. CASE i <= n
        <5>1. i \in 1 .. n /\ eventRing[i] = Batch BY <3>1, <3>2, <4>1
        <5>2. HeardOf(d) \/ \E j \in 1 .. i - 1 : eventRing[j] = <<"discovered", d>>
          BY <3>2, <5>1 DEF BatchComesLast, n
        <5>3. \A j \in 1 .. i - 1 : eventRing'[j] = eventRing[j] BY <3>1, <5>1
        <5> QED BY <5>2, <5>3
      <4>2. CASE i > n
        <5>1. PICK k \in 1 .. Len(es) : i = n + k
          <6>1. i - n \in 1 .. Len(es) /\ i = n + (i - n) BY <3>1, <4>2
          <6> QED BY <6>1
        <5>2. PICK j \in 1 .. k - 1 : es[j] = <<"discovered", d>> BY <2>4, <3>1, <3>2, <5>1
        <5>3. j \in 1 .. Len(es) /\ n + j \in 1 .. i - 1
          <6>1. j \in Int /\ k \in Int /\ 1 <= j /\ j <= k - 1 /\ k <= Len(es) BY <3>1, <5>1, <5>2
          <6> QED BY <3>1, <5>1, <6>1
        <5>4. eventRing'[n + j] = es[j] BY <3>1, <5>3
        <5> QED BY <5>2, <5>3, <5>4
      <4> QED BY <3>1, <4>1, <4>2
    <3> QED BY <2>1, <2>2, <3>2 DEF BatchComesLast
  <2> QED BY <1>10, <2>3, <2>4, PollEmits DEF BatchComesLast
<1>11. CASE AsyncCourierPoll BY <1>0, <1>11 DEF AsyncCourierPoll
<1>12. CASE EventCourierPoll
  <2>1. PICK e \in Events : e = Head(eventRing) BY <1>12 DEF EventCourierPoll, Types
  <2>2. /\ eventRing # <<>> /\ casting = <<>> /\ eventRing' = Tail(eventRing)
        /\ casting' = IF listeners[e[1]] = {} THEN <<>> ELSE <<e, listeners[e[1]]>>
        /\ UNCHANGED <<listeners, heard>>
    BY <1>12, <2>1 DEF EventCourierPoll, Idle
  <2>3. /\ Len(eventRing) \in Nat \ {0} /\ Len(eventRing') = Len(eventRing) - 1
        /\ e = eventRing[1] /\ \A i \in 1 .. Len(eventRing') : eventRing'[i] = eventRing[i + 1]
    BY <2>1, <2>2 DEF Types
  <2>4. \A d \in Devices : HeardOf(d) => <<"count", <<"discovered", d>>>> \in heard
    BY <2>2 DEF HeardOf
  <2>5. ASSUME casting' # <<>>, casting'[1] = Batch, NEW d \in Devices
        PROVE  <<"count", <<"discovered", d>>>> \in heard
    <3>1. e = Batch /\ listeners["batch"] # {} BY <2>2, <2>5 DEF Batch
    <3>2. 1 \in 1 .. Len(eventRing) /\ ~ \E j \in 1 .. 1 - 1 : TRUE BY <2>3
    <3>3. HeardOf(d) \/ \E j \in 1 .. 1 - 1 : eventRing[j] = <<"discovered", d>>
      BY <2>3, <3>1, <3>2 DEF BatchComesLast
    <3> QED BY <2>4, <3>2, <3>3
  <2>6. ASSUME listeners["batch"] # {}, NEW i \in 1 .. Len(eventRing'), eventRing'[i] = Batch,
               NEW d \in Devices
        PROVE  HeardOf(d)' \/ \E j \in 1 .. i - 1 : eventRing'[j] = <<"discovered", d>>
    <3>1. i + 1 \in 1 .. Len(eventRing) /\ eventRing[i + 1] = Batch BY <2>3, <2>6
    <3>2. HeardOf(d) \/ \E j \in 1 .. (i + 1) - 1 : eventRing[j] = <<"discovered", d>>
      BY <2>6, <3>1 DEF BatchComesLast
    <3>3. CASE HeardOf(d) BY <2>2, <2>4, <3>3 DEF HeardOf
    <3>4. ASSUME NEW j \in 1 .. (i + 1) - 1, eventRing[j] = <<"discovered", d>>
          PROVE  HeardOf(d)' \/ \E k \in 1 .. i - 1 : eventRing'[k] = <<"discovered", d>>
      <4>1. CASE j = 1
        <5>1. e = <<"discovered", d>> /\ listeners["discovered"] = {"count"}
          BY <2>3, <2>6, <3>4, <4>1 DEF BatchComesLast
        <5>2. casting' = <<e, {"count"}>> BY <2>2, <5>1
        <5> QED BY <5>1, <5>2 DEF HeardOf
      <4>2. CASE j # 1
        <5>1. j - 1 \in 1 .. i - 1 /\ j - 1 \in 1 .. Len(eventRing') /\ (j - 1) + 1 = j
          BY <2>3, <4>2
        <5> QED BY <2>3, <3>4, <5>1
      <4> QED BY <4>1, <4>2
    <3> QED BY <3>2, <3>3, <3>4
  <2> QED BY <2>2, <2>5, <2>6 DEF BatchComesLast
<1>13. CASE RunListener
  <2>1. PICK who \in casting[2] :
          /\ heard' = heard \cup {<<who, casting[1]>>}
          /\ casting' = IF casting[2] = {who} THEN <<>> ELSE <<casting[1], casting[2] \ {who}>>
    BY <1>13 DEF RunListener
  <2>2. casting # <<>> /\ UNCHANGED <<listeners, eventRing>> BY <1>13 DEF RunListener
  <2>3. casting' # <<>> => casting'[1] = casting[1] /\ casting'[2] = casting[2] \ {who}
    BY <2>1
  <2>4. \A d \in Devices : HeardOf(d) => HeardOf(d)'
    <3> SUFFICES ASSUME NEW d \in Devices, HeardOf(d) PROVE HeardOf(d)'
      OBVIOUS
    <3>1. CASE <<"count", <<"discovered", d>>>> \in heard BY <2>1, <3>1 DEF HeardOf
    <3>2. CASE casting[1] = <<"discovered", d>> /\ "count" \in casting[2]
      <4>1. CASE who = "count" BY <2>1, <3>2, <4>1 DEF HeardOf
      <4>2. CASE who # "count" BY <2>1, <3>2, <4>2 DEF HeardOf
      <4> QED BY <4>1, <4>2
    <3> QED BY <3>1, <3>2 DEF HeardOf
  <2>5. heard \subseteq heard' BY <2>1
  <2>6. <<"count", Batch>> \in heard' => <<"count", Batch>> \in heard \/ casting[1] = Batch
    BY <2>1 DEF Batch
  <2> QED BY <2>2, <2>3, <2>4, <2>5, <2>6 DEF BatchComesLast
<1>14. CASE Callbacks BY <1>0, <1>14 DEF Callbacks, RunCallback, ReleasePermit, SetValue
<1> QED
  BY <1>1, <1>2, <1>3, <1>4, <1>5, <1>6, <1>7, <1>8, <1>9, <1>10, <1>11, <1>12, <1>13, <1>14
  DEF Next, Main, Processing, Sweep, Delivery, RespCourierPoll

LEMMA RemovedStep ==
    Types /\ Control /\ Waits /\ BatchComesLast /\ RemovedIsDeaf /\ [Next]_vars => RemovedIsDeaf'
<1> SUFFICES ASSUME Types, Control, Waits, BatchComesLast, RemovedIsDeaf, [Next]_vars
             PROVE  RemovedIsDeaf'
  OBVIOUS
<1>0. CASE /\ UNCHANGED <<eventRing, casting, heard>>
           /\ listeners'["status"] \subseteq listeners["status"]
           /\ step' > 13 => step > 13 \/ "count" \notin listeners'["status"]
  BY <1>0 DEF RemovedIsDeaf
<1>a. step \in Nat BY DEF Types
<1>1. CASE UNCHANGED vars BY <1>0, <1>1
<1>2. CASE CreateContext \/ GetFutures \/ LeaveAsync \/ IngestReading
  <2>1. step \in {0, 5, 6, 16, 17}
    BY <1>2, AtLine DEF CreateContext, GetFutures, LeaveAsync, IngestReading, Types
  <2>2. step' \in {step, step + 1} /\ UNCHANGED <<listeners, eventRing, casting, heard>>
    BY <1>2 DEF CreateContext, GetFutures, LeaveAsync, IngestReading, NextLine
  <2>3. step' > 13 => step > 13 BY <2>1, <2>2
  <2> QED BY <1>0, <2>2, <2>3
<1>3. CASE Subscribe
  <2>1. step = 1 BY <1>3, AtLine DEF Subscribe, Types
  <2>2. eventRing = <<>> /\ casting = <<>> BY <2>1 DEF Control, Empty, Idle
  <2>3. step' = 2 /\ UNCHANGED <<eventRing, casting, heard>>
    BY <1>3, <2>1 DEF Subscribe, NextLine
  <2> QED BY <2>2, <2>3 DEF RemovedIsDeaf
<1>4. CASE Answered
  <2>1. main = "wait" /\ step # 13 BY <1>4 DEF Answered, Control
  <2>2. step' \in {step, step + 1} /\ UNCHANGED <<listeners, eventRing, casting, heard>>
    BY <1>4 DEF Answered, NextLine
  <2>3. step' > 13 => step > 13 BY <1>a, <2>1, <2>2
  <2> QED BY <1>0, <2>2, <2>3
<1>5. CASE OffStatus
  <2>1. listeners'["status"] = listeners["status"] \ {"count"} /\ UNCHANGED <<eventRing, casting, heard>>
    BY <1>5 DEF OffStatus, Types, Topics
  <2> QED BY <1>0, <2>1
<1>6. CASE OffAll \/ CloseGate
  <2>1. listeners'["status"] = {} /\ UNCHANGED <<eventRing, casting, heard>>
    BY <1>6 DEF OffAll, CloseGate, Topics
  <2> QED BY <1>0, <2>1
<1>7. CASE CountCall \/ RollBack \/ AcquirePermit \/ Request
  BY <1>0, <1>7 DEF CountCall, RollBack, AcquirePermit, Request
<1>8. CASE IssueAsync \/ IssueFuture
  BY <1>0, <1>8 DEF IssueAsync, IssueFuture, CallAsync
<1>9. CASE RequestShutdown \/ ShutdownAnswered \/ Join \/ Land
  BY <1>0, <1>9 DEF RequestShutdown, ShutdownAnswered, Join, Land
<1>10. CASE FreeCouriers
  <2>1. eventRing' = <<>> /\ UNCHANGED <<step, listeners, casting, heard>>
    BY <1>10 DEF FreeCouriers
  <2> QED BY <2>1 DEF RemovedIsDeaf
<1>11. CASE CourierPoll
  <2>1. UNCHANGED <<step, listeners, casting, heard>> BY <1>11 DEF CourierPoll
  <2>2. CASE eventRing' = eventRing BY <1>0, <2>1, <2>2
  <2>3. ASSUME NEW es \in Seq(Events), eventRing' = eventRing \o es,
               \A i \in 1 .. Len(es) : es[i] = <<"status", 2>> => step > 13
        PROVE  RemovedIsDeaf'
    <3>1. \A i \in 1 .. Len(eventRing') :
            \/ i \in 1 .. Len(eventRing) /\ eventRing'[i] = eventRing[i]
            \/ i - Len(eventRing) \in 1 .. Len(es) /\ eventRing'[i] = es[i - Len(eventRing)]
      BY <2>3 DEF Types
    <3> QED BY <2>1, <2>3, <3>1 DEF RemovedIsDeaf
  <2> QED BY <1>11, <2>2, <2>3, PollEmits DEF BatchComesLast
<1>12. CASE AsyncCourierPoll BY <1>0, <1>12 DEF AsyncCourierPoll
<1>13. CASE EventCourierPoll
  <2>1. PICK e \in Events : e = Head(eventRing) BY <1>13 DEF EventCourierPoll, Types
  <2>2. /\ eventRing # <<>> /\ eventRing' = Tail(eventRing)
        /\ casting' = IF listeners[e[1]] = {} THEN <<>> ELSE <<e, listeners[e[1]]>>
        /\ UNCHANGED <<step, listeners, heard>>
    BY <1>13, <2>1 DEF EventCourierPoll
  <2>3. /\ Len(eventRing) \in Nat \ {0} /\ Len(eventRing') = Len(eventRing) - 1
        /\ e = eventRing[1] /\ \A i \in 1 .. Len(eventRing') : eventRing'[i] = eventRing[i + 1]
    BY <2>1, <2>2 DEF Types
  <2>4. \A i \in 1 .. Len(eventRing') : i + 1 \in 1 .. Len(eventRing) BY <2>3
  <2>5. casting' # <<>> /\ casting'[1] = <<"status", 2>> => "count" \notin casting'[2]
    <3>0. 1 \in 1 .. Len(eventRing) BY <2>3
    <3>1. e = <<"status", 2>> => "count" \notin listeners["status"]
      BY <2>3, <3>0 DEF RemovedIsDeaf
    <3> QED BY <2>2, <3>1
  <2> QED BY <2>2, <2>3, <2>4, <2>5 DEF RemovedIsDeaf
<1>14. CASE RunListener
  <2>1. PICK who \in casting[2] :
          /\ heard' = heard \cup {<<who, casting[1]>>}
          /\ casting' = IF casting[2] = {who} THEN <<>> ELSE <<casting[1], casting[2] \ {who}>>
    BY <1>14 DEF RunListener
  <2>2. casting # <<>> /\ UNCHANGED <<step, listeners, eventRing>> BY <1>14 DEF RunListener
  <2>3. casting' # <<>> => casting'[1] = casting[1] /\ casting'[2] = casting[2] \ {who}
    BY <2>1
  <2> QED BY <2>1, <2>2, <2>3 DEF RemovedIsDeaf
<1>15. CASE Callbacks BY <1>0, <1>15 DEF Callbacks, RunCallback, ReleasePermit, SetValue
<1> QED
  BY <1>1, <1>2, <1>3, <1>4, <1>5, <1>6, <1>7, <1>8, <1>9, <1>10, <1>11, <1>12, <1>13, <1>14, <1>15
  DEF Next, Main, Processing, Sweep, Delivery, RespCourierPoll

-----------------------------------------------------------------------------
(* The inductive invariant *)

\* After the end nothing counts calls any more
LEMMA DoneStep == Types /\ Control /\ [Next]_vars /\ main' = "done" => inFlight' = inFlight
<1> SUFFICES ASSUME Types, Control, [Next]_vars, main' = "done" PROVE inFlight' = inFlight
  OBVIOUS
<1>1. CASE UNCHANGED vars BY <1>1
<1>2. CASE CreateContext \/ Request \/ Answered \/ IngestReading
  BY <1>2 DEF CreateContext, Request, Answered, IngestReading, NextLine
<1>3. CASE Subscribe \/ OffStatus \/ OffAll \/ CountCall \/ RollBack \/ LeaveAsync
  BY <1>3 DEF Subscribe, OffStatus, OffAll, CountCall, RollBack, LeaveAsync
<1>4. CASE AcquirePermit \/ GetFutures \/ CloseGate \/ Join \/ FreeCouriers \/ Land
  BY <1>4 DEF AcquirePermit, GetFutures, CloseGate, Join, FreeCouriers, Land
<1>5. CASE IssueAsync \/ IssueFuture BY <1>5 DEF IssueAsync, IssueFuture, CallAsync
<1>6. CASE RequestShutdown \/ ShutdownAnswered BY <1>6 DEF RequestShutdown, ShutdownAnswered
<1>7. CASE CourierPoll BY <1>7 DEF CourierPoll, Control, Empty
<1>8. CASE AsyncCourierPoll BY <1>8 DEF AsyncCourierPoll, Control, Empty
<1>9. CASE EventCourierPoll \/ RunListener \/ Callbacks
  BY <1>9 DEF EventCourierPoll, RunListener, Callbacks, RunCallback, ReleasePermit, SetValue
<1> QED
  BY <1>1, <1>2, <1>3, <1>4, <1>5, <1>6, <1>7, <1>8, <1>9
  DEF Next, Main, Processing, Delivery, RespCourierPoll, Sweep

IInv ==
    /\ Types /\ Control /\ Waits
    /\ InFlight /\ inFlight >= 0
    /\ Readings
    /\ Once /\ InWindow /\ Drained /\ Counted /\ Permits
    /\ BatchComesLast /\ RemovedIsDeaf

LEMMA IInvInit == Init => IInv
<1> SUFFICES ASSUME Init PROVE IInv
  OBVIOUS
<1>1. Types /\ Control BY TypesInit
<1>2. /\ step = 0 /\ main = "go" /\ turn = 1 /\ pending = 0 /\ gaveUp = {} /\ heard = {}
      /\ permits = Window /\ inFlight = 0 /\ slot = "free" /\ depth = 0
      /\ landing = NoCall /\ casting = <<>>
      /\ ring = <<>> /\ asyncRing = <<>> /\ respRing = <<>> /\ eventRing = <<>>
      /\ payload[1] = 0 /\ readings[1] = 0
      /\ Len(ring) = 0 /\ Len(asyncRing) = 0 /\ Len(respRing) = 0
      /\ \A d \in Devices : future[d] = "none"
      /\ \A t \in Topics : listeners[t] = {}
  BY DEF Init
<1>3. Queued = {} /\ Outstanding = {} /\ AsyncOut = {} /\ IssuedFutures = {}
  BY <1>2, RangeOfEmpty DEF Queued, Outstanding, AsyncOut, IssuedFutures
<1>4. Cardinality({}) = 0 BY FS_EmptySet
<1>5. Waits BY <1>2 DEF Waits
<1>6. InFlight /\ inFlight >= 0 BY <1>2 DEF InFlight, Bit
<1>7. Readings BY <1>2 DEF Readings, Sent, Bit
<1>8. Once BY <1>2, <1>3, RangeOfEmpty DEF Once
<1>9. InWindow BY <1>2, <1>3, <1>4 DEF InWindow
<1>10. Drained /\ Counted BY <1>2, <1>3, <1>4 DEF Drained, Counted, Bit
<1>11. Permits BY <1>2, <1>3, <1>4 DEF Permits, Bit, FuturesNotRefused
<1>12. BatchComesLast BY <1>2 DEF BatchComesLast, Topics
<1>13. RemovedIsDeaf BY <1>2 DEF RemovedIsDeaf
<1> QED
  BY <1>1, <1>2, <1>5, <1>6, <1>7, <1>8, <1>9, <1>10, <1>11, <1>12, <1>13 DEF IInv

LEMMA InFlightNotNegative ==
    IInv /\ [Next]_vars /\ Types' /\ InFlight' => inFlight' >= 0
<1> SUFFICES ASSUME IInv, [Next]_vars, Types', InFlight' PROVE inFlight' >= 0
  OBVIOUS
<1>1. CASE main' = "done" BY <1>1, DoneStep DEF IInv
<1>2. CASE main' # "done"
  <2>1. Len(asyncRing') \in Nat /\ Len(ring') \in Nat BY DEF Types
  <2> QED BY <1>2, <2>1 DEF InFlight, Bit
<1> QED BY <1>1, <1>2

LEMMA IInvStep == IInv /\ [Next]_vars => IInv'
<1> SUFFICES ASSUME IInv, [Next]_vars PROVE IInv'
  OBVIOUS
<1>1. /\ Types /\ Control /\ Waits /\ InFlight /\ Readings /\ Once /\ InWindow /\ Drained
      /\ Counted /\ Permits /\ BatchComesLast /\ RemovedIsDeaf
  BY DEF IInv
<1>2. Types' /\ Control' BY <1>1, TypesStep, ControlStep
<1>3. Waits' BY <1>1, WaitsStep
<1>4. InFlight' BY <1>1, InFlightStep
<1>5. inFlight' >= 0 BY <1>2, <1>4, InFlightNotNegative
<1>6. Readings' BY <1>1, ReadingsStep
<1>7. Once' /\ InWindow' BY <1>1, OnceStep, InWindowStep
<1>8. Drained' BY <1>1, DrainedStep DEF IInv
<1>9. Counted' BY <1>1, CountedStep
<1>10. Permits' BY <1>1, PermitsStep
<1>11. BatchComesLast' BY <1>1, BatchStep
<1>12. RemovedIsDeaf' BY <1>1, RemovedStep
<1> QED BY <1>2, <1>3, <1>4, <1>5, <1>6, <1>7, <1>8, <1>9, <1>10, <1>11, <1>12 DEF IInv

LEMMA IInvAlways == Spec => []IInv
BY IInvInit, IInvStep, PTL DEF Spec

-----------------------------------------------------------------------------
(* The theorems *)

\* No counter is rolled back once too often: `pending`, the reservations of the
\* window, the calls in flight and the semaphore stay within their bounds
\* whatever the callbacks, the refusals and the shutdown do to them.
THEOREM TypeCorrect == Spec => []TypeOK
<1>1. IInv => TypeOK
  <2> SUFFICES ASSUME IInv PROVE TypeOK
    OBVIOUS
  <2>1. Types /\ pending \in 0 .. Last /\ depth \in 0 .. Window /\ inFlight \in Nat
    BY DEF IInv, Counted, InWindow, Types
  <2>2. permits \in 0 .. Window BY <2>1, FiniteFutures DEF IInv, Permits, Bit, Types
  <2>3. readings[1] \in 0 .. 2 /\ payload[1] \in 0 .. 2
    <3>1. readings[1] \in Nat /\ payload[1] \in Nat /\ Len(ring) \in Nat BY <2>1 DEF Types
    <3>2. Len(ring) - Bit(slot = "busy") >= 0 BY <2>1, <3>1 DEF IInv, Waits, Bit, Types
    <3>3. Sent(step) <= 2 /\ Sent(step) \in Nat BY <2>1 DEF Sent, Bit, Types
    <3>4. readings[1] + Len(ring) - Bit(slot = "busy") <= Sent(step) /\ payload[1] <= 2
      BY DEF IInv, Readings
    <3> QED BY <3>1, <3>2, <3>3, <3>4 DEF Bit
  <2>4. readings \in (0 .. 2) \X (0 .. 2) /\ payload \in (0 .. 2) \X (0 .. 2)
    BY <2>1, <2>3 DEF Types
  <2> QED BY <2>1, <2>2, <2>4, ScriptLength DEF TypeOK, Types
<1> QED BY <1>1, IInvAlways, PTL

\* A callback refers to what exists: `pending` is counted before a call is issued
\* and main() waits for it, and <lib>_shutdown joins the delivery thread before
\* the Mylib object goes (cpp_example/main.cpp, api_cbor_courier.nim).
THEOREM CallbacksKeepInScope == Spec => []CallbacksInScope
<1>1. IInv => CallbacksInScope
  <2> SUFFICES ASSUME IInv PROVE CallbacksInScope
    OBVIOUS
  <2>1. ASSUME landing # NoCall, landing[1] = "async" PROVE inScope \/ "async" \in gaveUp
    <3>1. landing \in {"async"} \X Devices BY <2>1 DEF IInv, Types, Calls
    <3>2. landing \in AsyncOut BY <2>1, <3>1 DEF AsyncOut, Outstanding
    <3> QED BY <3>2 DEF IInv, Counted
  <2>2. joined => casting = <<>> /\ (landing # NoCall => main = "sweep")
    BY DEF IInv, Control, Empty, Idle
  <2> QED BY <2>1, <2>2 DEF CallbacksInScope
<1> QED BY <1>1, IInvAlways, PTL

\* The semaphore of the generated wrapper is given back after the reservation of
\* the library's window, so that a future that got a permit is never refused, and the
\* counters that see to it keep within their bounds.
THEOREM WindowTakesFutures == Spec => []WithinBounds
<1>1. IInv => FuturesNotRefused BY DEF IInv, Permits
<1>2. TypeOK /\ FuturesNotRefused => WithinBounds BY DEF WithinBounds
<1> QED BY <1>1, <1>2, IInvAlways, TypeCorrect, PTL

\* No ring drops an accepted call: the window bounds both rings together, and the
\* couriers are swept before they are freed (api_cbor_courier.nim).
THEOREM AcceptedCallsLand == Spec => []AcceptedLand
<1>1. IInv => AcceptedLand
  <2> SUFFICES ASSUME IInv, "drain" \notin gaveUp
               PROVE  /\ pending = Cardinality(Outstanding \cap ({"async"} \X Devices))
                                   + (IF main \in {"issue", "rollBack"} THEN 1 ELSE 0)
                      /\ \A d \in Devices : future[d] = "issued" => <<"future", d>> \in Outstanding
    BY DEF AcceptedLand
  <2>1. Kept BY DEF Kept
  <2> QED BY <2>1 DEF IInv, Counted, Permits, AsyncOut, Bit
<1> QED BY <1>1, IInvAlways, PTL

\* With the batch a listener has heard of every device, and one that was removed
\* hears of no later event: the event ring is in the order of the emits, and the
\* dispatcher looks the listeners up when it delivers.
THEOREM ListenersHearInOrder == Spec => []ListenersHear
<1>1. IInv => ListenersHear BY DEF IInv, BatchComesLast, RemovedIsDeaf, Batch, ListenersHear
<1> QED BY <1>1, IInvAlways, PTL
=============================================================================
