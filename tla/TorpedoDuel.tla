----------------------------- MODULE TorpedoDuel -----------------------------
(***************************************************************************)
(* The torpedo example: the C++ program main.cpp and the two contexts, red *)
(* and blue, of the library torpedolib.nim it drives.                      *)
(*                                                                         *)
(* main() issues requests to the captains, one at a time; each captain     *)
(* lives on the processing thread of its context and listens to the        *)
(* volleys of the other; what a captain says is queued to the delivery     *)
(* thread of its context, which runs the callbacks main() registered.      *)
(*                                                                         *)
(* Of what a captain says, only how much there is of it is modelled.  The  *)
(* AI is the one main() asks for, "hunt"; its random generator is a choice.*)
(***************************************************************************)
EXTENDS Naturals, Sequences, FiniteSets

CONSTANTS
    Cells,       \* cells of a board
    Near,        \* of each cell, the cells next to it
    Fleets,      \* the fleets that fit a board; a ship is a set of cells
    FeedCap,     \* bound of the queue to a delivery thread
    LogCap       \* EventLog.maxEntries_

Side == {"red", "blue"}
Other(s) == IF s = "red" THEN "blue" ELSE "red"
Marks == {"unknown", "miss", "hit", "sunk"}
NoShot == [id |-> 0, cell |-> CHOOSE x \in Cells : TRUE]

ASSUME DuelAssumption ==
    /\ IsFiniteSet(Cells) /\ Cells # {}
    /\ Near \in [Cells -> SUBSET Cells]
    /\ Fleets \subseteq SUBSET SUBSET Cells
    /\ \A f \in Fleets :
         /\ f # {} /\ {} \notin f
         /\ \A a, b \in f : a # b => a \cap b = {}
    /\ FeedCap \in Nat \ {0} /\ LogCap \in Nat \ {0}

VARIABLES
    \* main()
    main,      \* where it is
    line,      \* lines of the set-up script it is through with
    starter,   \* cfg.starterIsRed
    banner,
    view,      \* of each side, the last GetPublicBoardRequest
    screen,    \* the frame on the terminal
    raw,       \* RawTerminal.active_
    log,       \* entries in the EventLog
    logAlive,  \* the EventLog is not destroyed
    \* of each context
    alive,     \* its threads run
    captain,
    task,      \* coroutines of the processing thread that sleep out a turn delay
    mail,      \* its VolleyEvents on their way to the other captain
    on,        \* callbacks are registered
    feed,      \* events in its courier to the delivery thread
    cast       \* a callback is at work

mainVars == <<main, line, starter, banner, view, screen, raw>>
logVars == <<log, logAlive>>
contextVars == <<alive, captain, task, mail, on, feed, cast>>
vars == <<mainVars, logVars, contextVars>>

-------------------------------------------------------------------------------
(* The captain *)

NewCaptain == [live |-> TRUE, linked |-> FALSE, started |-> FALSE,
               over |-> FALSE, won |-> FALSE, fleet |-> {}, hit |-> {}, miss |-> {},
               chart |-> [x \in Cells |-> "unknown"], fired |-> 0, pending |-> NoShot]
NoCaptain == [NewCaptain EXCEPT !.live = FALSE]

Resolved(c) == c.hit \cup c.miss      \* as many as shotsReceived
Sinks(c, ship) == ship \subseteq c.hit
AllShipsSunk(c) == c.fleet # {} /\ \A ship \in c.fleet : Sinks(c, ship)

\* fleetPlaced, linked and not over
Playing(c) == c.fleet # {} /\ ~c.over /\ c.linked

Unlinked(c) == [c EXCEPT !.linked = FALSE, !.started = FALSE, !.over = FALSE,
                         !.won = FALSE, !.pending = NoShot]

Hits(c) == {x \in Cells : c.chart[x] = "hit"}
Unknown(c) == {x \in Cells : c.chart[x] = "unknown"}
FinishContact(c) == {x \in Unknown(c) : Near[x] \cap Hits(c) # {}}

ChooseShot(c) == IF FinishContact(c) # {} THEN FinishContact(c) ELSE Unknown(c)

\* planNextShot with target x; nextExchangeId counts with shotsFired
PlanNextShot(c, x) == [c EXCEPT !.pending = [id |-> c.fired + 1, cell |-> x],
                                !.fired = @ + 1, !.started = TRUE]

\* fireNextVolley up to its delay: the captain, the sleeping coroutine, what is said
FireNextVolley(c, trigger) ==
    IF Playing(c) /\ c.pending = NoShot /\ Unknown(c) # {}
      THEN {[captain |-> PlanNextShot(c, x), says |-> 0,
             sleeps |-> {[does |-> "launch", id |-> c.fired + 1, cell |-> x,
                          trigger |-> trigger]}] : x \in ChooseShot(c)}
      ELSE {[captain |-> c, says |-> 1, sleeps |-> {}]}

\* Mutant: the last ship lost wins
ReceiveShot_Wins(c, x) ==
    LET struck == x \in UNION c.fleet
        d == [c EXCEPT !.started = TRUE,
                       !.hit = IF struck THEN @ \cup {x} ELSE @,
                       !.miss = IF struck THEN @ ELSE @ \cup {x}]
    IN [d EXCEPT !.over = AllShipsSunk(d), !.won = AllShipsSunk(d)]

\* Mutant: the loss of the last ship goes unnoticed
ReceiveShot_FightsOn(c, x) ==
    [c EXCEPT !.started = TRUE,
              !.hit = IF x \in UNION c.fleet THEN @ \cup {x} ELSE @,
              !.miss = IF x \in UNION c.fleet THEN @ ELSE @ \cup {x}]

\* receiveShot at x, when it does not refuse
ReceiveShot(c, x) ==
    LET struck == x \in UNION c.fleet
        d == [c EXCEPT !.started = TRUE,
                       !.hit = IF struck THEN @ \cup {x} ELSE @,
                       !.miss = IF struck THEN @ ELSE @ \cup {x}]
    IN [d EXCEPT !.over = AllShipsSunk(d), !.won = @ /\ ~AllShipsSunk(d)]

\* Mutant: the shot answered stays pending
ObserveOutcome_Pending(c, v) ==
    [c EXCEPT !.started = TRUE,
              !.chart[v.cell] = IF v.hit THEN (IF v.sunk THEN "sunk" ELSE "hit") ELSE "miss",
              !.over = @ \/ v.over, !.won = @ \/ v.over]

ObserveOutcome(c, v) ==
    [c EXCEPT !.started = TRUE, !.pending = NoShot,
              !.chart[v.cell] = IF v.hit THEN (IF v.sunk THEN "sunk" ELSE "hit") ELSE "miss",
              !.over = @ \/ v.over, !.won = @ \/ v.over]

Fire(t) == [stage |-> "fire", id |-> t.id, cell |-> t.cell,
            hit |-> FALSE, sunk |-> FALSE, over |-> FALSE]
\* Mutant: a hit is told when the ship sinks
Reply_SunkOnly(t, d) ==
    LET sunk == \E ship \in d.fleet : t.cell \in ship /\ Sinks(d, ship)
    IN [stage |-> "reply", id |-> t.id, cell |-> t.cell, hit |-> sunk, sunk |-> sunk,
        over |-> d.over]

Reply(t, d) == [stage |-> "reply", id |-> t.id, cell |-> t.cell,
                hit |-> t.cell \in d.hit,
                sunk |-> \E ship \in d.fleet : t.cell \in ship /\ Sinks(d, ship),
                over |-> d.over]

\* emit: the callbacks' side, where a full queue drops the event, and the peer's side
Say(s, says) ==
    feed' = [feed EXCEPT ![s] = IF ~on[s] THEN @
                                ELSE IF @ + says < FeedCap THEN @ + says ELSE FeedCap]
\* Mutant: a volley is lost while another is on its way
EmitVolley_OneAtATime(s, v) ==
    mail' = IF captain[Other(s)].linked /\ mail[s] = <<>> THEN [mail EXCEPT ![s] = <<v>>] ELSE mail

EmitVolley(s, v) ==
    mail' = IF captain[Other(s)].linked THEN [mail EXCEPT ![s] = Append(@, v)] ELSE mail

HearFire(s) ==
    LET box == mail[Other(s)] c == captain[s]
    IN /\ alive[s] /\ box # <<>> /\ Head(box).stage = "fire"
       /\ mail' = [mail EXCEPT ![Other(s)] = Tail(@)]
       /\ IF c.over
            THEN UNCHANGED <<captain, task, feed>>
            ELSE /\ captain' = [captain EXCEPT ![s].started = TRUE]
                 /\ task' = [task EXCEPT ![s] = @ \cup
                       {[does |-> "receive", id |-> Head(box).id, cell |-> Head(box).cell,
                         trigger |-> "fire"]}]
                 /\ Say(s, 1)
       /\ UNCHANGED <<mainVars, logVars, alive, on, cast>>

HearReply(s) ==
    LET box == mail[Other(s)] v == Head(box) c == captain[s]
        matches == c.pending = [id |-> v.id, cell |-> v.cell]
    IN /\ alive[s] /\ box # <<>> /\ v.stage = "reply"
       /\ mail' = [mail EXCEPT ![Other(s)] = Tail(@)]
       /\ captain' = [captain EXCEPT ![s] =
                        IF ~c.over /\ matches THEN ObserveOutcome(c, v) ELSE @]
       /\ Say(s, IF c.over THEN 0 ELSE IF matches /\ v.over THEN 2 ELSE 1)
       /\ UNCHANGED <<mainVars, logVars, alive, task, on, cast>>

\* The turn delay of a shot received is over and the captain refuses it
RefuseShot(s) ==
    /\ alive[s]
    /\ \E t \in task[s] :
         /\ t.does = "receive"
         /\ ~Playing(captain[s]) \/ t.cell \in Resolved(captain[s])
         /\ task' = [task EXCEPT ![s] = @ \ {t}]
    /\ Say(s, 1)
    /\ UNCHANGED <<mainVars, logVars, alive, captain, mail, on, cast>>

\* ... or takes it, replies and, if it survived, fires back
TakeShot(s) ==
    /\ alive[s]
    /\ \E t \in task[s] : LET d == ReceiveShot(captain[s], t.cell) IN
         /\ t.does = "receive"
         /\ Playing(captain[s]) /\ t.cell \notin Resolved(captain[s])
         /\ EmitVolley(s, Reply(t, d))
         /\ \E next \in IF d.over THEN {[captain |-> d, says |-> 0, sleeps |-> {}]}
                                  ELSE FireNextVolley(d, "counter") :
              /\ captain' = [captain EXCEPT ![s] = next.captain]
              /\ task' = [task EXCEPT ![s] = (@ \ {t}) \cup next.sleeps]
              /\ Say(s, (IF d.over THEN 3 ELSE 2) + next.says)
    /\ UNCHANGED <<mainVars, logVars, alive, on, cast>>

\* The turn delay of a volley is over; the first one answers StartGameRequest
Launch(s) ==
    /\ alive[s]
    /\ \E t \in task[s] :
         /\ t.does = "launch"
         /\ EmitVolley(s, Fire(t))
         /\ task' = [task EXCEPT ![s] = @ \ {t}]
         /\ main' = IF t.trigger = "opening" THEN "started" ELSE main
    /\ Say(s, 2)
    /\ UNCHANGED <<line, starter, banner, view, screen, raw, logVars, alive, captain, on, cast>>

-------------------------------------------------------------------------------
(* The delivery thread and the callbacks *)

\* It takes an event and the callbacks registered for it at that time
Deliver(s) ==
    /\ alive[s] /\ ~cast[s] /\ feed[s] > 0
    /\ cast' = [cast EXCEPT ![s] = on[s]]
    /\ feed' = [feed EXCEPT ![s] = @ - 1]
    /\ UNCHANGED <<mainVars, logVars, alive, captain, task, mail, on>>

Push == log' = IF log < LogCap THEN log + 1 ELSE LogCap

Callback(s) ==
    /\ cast[s] /\ cast' = [cast EXCEPT ![s] = FALSE]
    /\ Push
    /\ UNCHANGED <<mainVars, logAlive, alive, captain, task, mail, on, feed>>

-------------------------------------------------------------------------------
(* main(): the requests, each answered by the captain before the next one *)

Script == << <<"create", "red">>, <<"create", "blue">>,
             <<"register", "red">>, <<"register", "blue">>,
             <<"initialize", "red">>, <<"initialize", "blue">>,
             <<"place", "red">>, <<"place", "blue">>,
             <<"link", "red">>, <<"link", "blue">>, <<"start", starter>> >>

At(what, s) == main = "setup" /\ line < Len(Script) /\ Script[line + 1] = <<what, s>>
Advance == line' = line + 1 /\ UNCHANGED <<main, starter, banner, view, screen, raw>>

\* FATAL: return 1; createContext may fail, the board size be refused, a fleet not fit.
\* The returns after link and start are never taken: the providers refuse a captain that
\* is missing, not placed, over, linked to itself or started, and here none is
Fatal ==
    /\ \E s \in Side : At("create", s) \/ At("initialize", s) \/ At("place", s)
    /\ main' = "destroyBlue"
    /\ UNCHANGED <<line, starter, banner, view, screen, raw, logVars, contextVars>>

CreateContext(s) ==
    /\ At("create", s) /\ Advance
    /\ alive' = [alive EXCEPT ![s] = TRUE]
    /\ UNCHANGED <<logVars, captain, task, mail, on, feed, cast>>

RegisterCallbacks(s) ==
    /\ At("register", s) /\ Advance
    /\ on' = [on EXCEPT ![s] = TRUE]
    /\ Push
    /\ UNCHANGED <<logAlive, alive, captain, task, mail, feed, cast>>

InitializeCaptain(s) ==
    /\ At("initialize", s) /\ Advance
    /\ captain' = [captain EXCEPT ![s] = NewCaptain]
    /\ Say(s, 1)
    /\ UNCHANGED <<logVars, alive, task, mail, on, cast>>

AutoPlaceFleet(s) ==
    /\ At("place", s) /\ Advance
    /\ \E f \in Fleets : captain' = [captain EXCEPT ![s].fleet = f]
    /\ Say(s, 1)
    /\ Push
    /\ UNCHANGED <<logAlive, alive, task, mail, on, cast>>

LinkOpponent(s) ==
    /\ At("link", s) /\ Advance
    /\ captain[s].live /\ captain[s].fleet # {} /\ ~captain[s].over
    /\ captain' = [captain EXCEPT ![s] = [Unlinked(@) EXCEPT !.linked = TRUE]]
    /\ Say(s, 1)
    /\ IF s = "blue" THEN Push ELSE UNCHANGED log
    /\ UNCHANGED <<logAlive, alive, task, mail, on, cast>>

\* The request is answered when the opening volley is launched
StartGame(s) ==
    /\ At("start", s) /\ main' = "starting" /\ line' = line + 1
    /\ captain[s].live /\ Playing(captain[s]) /\ ~captain[s].started
    /\ \E next \in FireNextVolley(captain[s], "opening") :
         /\ captain' = [captain EXCEPT ![s] = next.captain]
         /\ task' = [task EXCEPT ![s] = @ \cup next.sleeps]
         /\ Say(s, 1 + next.says)
    /\ UNCHANGED <<starter, banner, view, screen, raw, logVars, alive, mail, on, cast>>

\* stdin is a terminal: when it is not, no key is ever read
RawMode == raw' = TRUE
Restore == raw' = FALSE
Quits == {FALSE} \cup {raw}

OpenTerminal ==
    /\ main = "started" /\ main' = "key"
    /\ banner' = <<"opens", starter>>
    /\ RawMode
    /\ UNCHANGED <<line, starter, view, screen, logVars, contextVars>>

\* Top of the loop; the model forgets the last frame here
KeyPressed ==
    /\ main = "key"
    /\ \E quit \in Quits : main' = IF quit THEN "cleanUp" ELSE "viewRed"
    /\ screen' = <<>>
    /\ UNCHANGED <<line, starter, banner, view, raw, logVars, contextVars>>

OwnCell(c, x) ==
    IF x \in UNION c.fleet
      THEN IF \E ship \in c.fleet : x \in ship /\ Sinks(c, ship) THEN "sunk"
           ELSE IF x \in c.hit THEN "hit" ELSE "ship"
      ELSE IF x \in c.miss THEN "miss" ELSE "water"

FleetHits(c) == [ship \in c.fleet |-> Cardinality(ship \cap c.hit)]

PublicBoard(c) ==
    [own |-> [x \in Cells |-> OwnCell(c, x)], chart |-> c.chart, fleet |-> FleetHits(c),
     linked |-> c.linked, started |-> c.started, over |-> c.over, won |-> c.won,
     fired |-> c.fired, received |-> Cardinality(Resolved(c))]

GetPublicBoard(s, from, to) ==
    /\ main = from /\ main' = to
    /\ view' = [view EXCEPT ![s] =
                  IF captain[s].live THEN <<PublicBoard(captain[s])>> ELSE <<>>]
    /\ UNCHANGED <<line, starter, banner, screen, raw, logVars, contextVars>>

\* Both views in hand; one that failed ends the loop
ReadLast ==
    /\ main = "readLast"
    /\ IF \E s \in Side : view[s] = <<>>
         THEN main' = "cleanUp" /\ UNCHANGED banner
         ELSE /\ main' = "draw"
              /\ banner' = IF log = 0 THEN banner ELSE <<"last">>
    /\ UNCHANGED <<line, starter, view, screen, raw, logVars, contextVars>>

OwnSymbol(code) == CASE code = "ship" -> "S" [] code = "miss" -> "o"
                     [] code = "hit" -> "x" [] code = "sunk" -> "*" [] OTHER -> "."
EnemySymbol(code) == CASE code = "ship" -> "!" [] code = "miss" -> "o"
                       [] code = "hit" -> "x" [] code = "sunk" -> "*" [] OTHER -> "."

\* Own waters and enemy chart
Panels(v) == [own |-> [x \in Cells |-> OwnSymbol(v.own[x])],
              enemy |-> [x \in Cells |-> EnemySymbol(v.chart[x])]]

FleetStatus(v) == [ship \in DOMAIN v.fleet |->
                     [hits |-> v.fleet[ship], sunk |-> v.fleet[ship] = Cardinality(ship)]]

Outcome(v) == IF ~v.over THEN "active" ELSE IF v.won THEN "won" ELSE "lost"

MetaInfo(v) == [placed |-> v.fleet # <<>>, linked |-> v.linked, started |-> v.started,
                outcome |-> Outcome(v)]

Scoreboard(v) == [fired |-> v.fired, received |-> v.received]

\* With a title and the log
DrawScreen(top) ==
    LET shown == [s \in Side |-> view[s][1]] IN
    screen' = <<[banner |-> top, entries |-> log,
                 panels |-> [s \in Side |-> Panels(shown[s])],
                 fleet |-> [s \in Side |-> FleetStatus(shown[s])],
                 meta |-> [s \in Side |-> MetaInfo(shown[s])],
                 score |-> [s \in Side |-> Scoreboard(shown[s])]]>>

Draw ==
    /\ main = "draw" /\ DrawScreen(banner)
    /\ main' = IF \E s \in Side : view[s][1].over THEN "finalRed" ELSE "key"
    /\ view' = [s \in Side |-> <<>>]
    /\ UNCHANGED <<line, starter, banner, raw, logVars, contextVars>>

Winner == IF view["blue"][1].won THEN "blue"
          ELSE IF view["red"][1].won THEN "red" ELSE "Unknown"

DrawFinal ==
    /\ main = "drawFinal" /\ main' = "cleanUp"
    /\ IF \E s \in Side : view[s] = <<>>
         THEN UNCHANGED <<banner, screen>>
         ELSE banner' = <<"wins", Winner>> /\ DrawScreen(<<"wins", Winner>>)
    /\ view' = [s \in Side |-> <<>>]
    /\ UNCHANGED <<line, starter, raw, logVars, contextVars>>

Cleanup ==
    /\ main = "cleanUp" /\ main' = "offRed"
    /\ Restore
    /\ UNCHANGED <<line, starter, banner, view, screen, logVars, contextVars>>

UnregisterCallbacks(s, from, to) ==
    /\ main = from /\ main' = to
    /\ on' = [on EXCEPT ![s] = FALSE]
    /\ UNCHANGED <<line, starter, banner, view, screen, raw, logVars,
                   alive, captain, task, mail, feed, cast>>

\* ~Torpedolib: the dispatchers are cleared and the library runs the ShutdownRequest
\* provider, which drops the peer listener and what is queued to it
Shutdown(s, from, to) ==
    /\ main = from /\ main' = to
    /\ on' = [on EXCEPT ![s] = FALSE]
    /\ captain' = [captain EXCEPT ![s] = [Unlinked(@) EXCEPT !.live = FALSE]]
    /\ mail' = [mail EXCEPT ![Other(s)] = <<>>]
    /\ UNCHANGED <<line, starter, banner, view, screen, raw, logVars,
                   alive, task, feed, cast>>

\* Mutant: a callback at work is not waited for
Join_NoWait(s, from, to) ==
    /\ main = from /\ main' = to
    /\ alive' = [alive EXCEPT ![s] = FALSE]
    /\ task' = [task EXCEPT ![s] = {}]
    /\ feed' = [feed EXCEPT ![s] = 0]
    /\ UNCHANGED <<line, starter, banner, view, screen, raw, logVars,
                   captain, mail, on, cast>>

\* ... then joins the delivery thread and the processing thread
Join(s, from, to) ==
    /\ main = from /\ main' = to
    /\ ~cast[s]
    /\ alive' = [alive EXCEPT ![s] = FALSE]
    /\ task' = [task EXCEPT ![s] = {}]
    /\ feed' = [feed EXCEPT ![s] = 0]
    /\ UNCHANGED <<line, starter, banner, view, screen, raw, logVars,
                   captain, mail, on, cast>>

DestroyLog ==
    /\ main = "destroyLog" /\ main' = "done"
    /\ logAlive' = FALSE /\ log' = 0
    /\ UNCHANGED <<line, starter, banner, view, screen, raw, contextVars>>

Init ==
    /\ main = "setup" /\ line = 0 /\ starter \in Side
    /\ banner = <<>> /\ view = [s \in Side |-> <<>>] /\ screen = <<>> /\ raw = FALSE
    /\ log = 0 /\ logAlive = TRUE
    /\ alive = [s \in Side |-> FALSE] /\ captain = [s \in Side |-> NoCaptain]
    /\ task = [s \in Side |-> {}] /\ mail = [s \in Side |-> <<>>]
    /\ on = [s \in Side |-> FALSE] /\ feed = [s \in Side |-> 0]
    /\ cast = [s \in Side |-> FALSE]

SetUp(s) == CreateContext(s) \/ RegisterCallbacks(s) \/ InitializeCaptain(s)
              \/ AutoPlaceFleet(s) \/ LinkOpponent(s) \/ StartGame(s)
\* Mutant: the view of Blue before that of Red
Observe_BlueFirst ==
    \/ OpenTerminal \/ KeyPressed
    \/ GetPublicBoard("blue", "viewRed", "viewBlue")
    \/ GetPublicBoard("red", "viewBlue", "readLast")
    \/ ReadLast \/ Draw
    \/ GetPublicBoard("blue", "finalRed", "finalBlue")
    \/ GetPublicBoard("red", "finalBlue", "drawFinal")
    \/ DrawFinal

Observe == \/ OpenTerminal \/ KeyPressed
           \/ GetPublicBoard("red", "viewRed", "viewBlue")
           \/ GetPublicBoard("blue", "viewBlue", "readLast")
           \/ ReadLast \/ Draw
           \/ GetPublicBoard("red", "finalRed", "finalBlue")
           \/ GetPublicBoard("blue", "finalBlue", "drawFinal")
           \/ DrawFinal
Return == \/ Cleanup
          \/ UnregisterCallbacks("red", "offRed", "offBlue")
          \/ UnregisterCallbacks("blue", "offBlue", "destroyBlue")
          \/ Shutdown("blue", "destroyBlue", "joinBlue")
          \/ Join("blue", "joinBlue", "destroyRed")
          \/ Shutdown("red", "destroyRed", "joinRed")
          \/ Join("red", "joinRed", "destroyLog")
          \/ DestroyLog
Main == Fatal \/ (\E s \in Side : SetUp(s)) \/ Observe \/ Return

Processing(s) == HearFire(s) \/ HearReply(s) \/ RefuseShot(s) \/ TakeShot(s) \/ Launch(s)
Delivery(s) == Deliver(s) \/ Callback(s)

Next == Main \/ \E s \in Side : Processing(s) \/ Delivery(s)

Spec == Init /\ [][Next]_vars

\* Every thread runs on; nobody has to press a key
FairSpec == /\ Spec /\ WF_vars(Main)
            /\ \A s \in Side : WF_vars(Processing(s)) /\ WF_vars(Delivery(s))

-------------------------------------------------------------------------------
(* Properties *)

Shots == [id : Nat, cell : Cells]
Volleys == [stage : {"fire", "reply"}, id : Nat, cell : Cells,
            hit : BOOLEAN, sunk : BOOLEAN, over : BOOLEAN]
Tasks == [does : {"launch"}, id : Nat, cell : Cells, trigger : {"opening", "counter"}]
           \cup [does : {"receive"}, id : Nat, cell : Cells, trigger : {"fire"}]
Captains == [live : BOOLEAN, linked : BOOLEAN, started : BOOLEAN, over : BOOLEAN,
             won : BOOLEAN, fleet : Fleets \cup {{}}, hit : SUBSET Cells,
             miss : SUBSET Cells, chart : [Cells -> Marks], fired : Nat, pending : Shots]

Places == {"setup", "starting", "started", "key", "viewRed", "viewBlue", "readLast", "draw",
           "finalRed", "finalBlue", "drawFinal", "cleanUp", "offRed", "offBlue",
           "destroyBlue", "joinBlue", "destroyRed", "joinRed", "destroyLog", "done"}

\* Type invariant: the program is always at a known place and every captain, message,
\* queue and log entry is one the code can produce; queue and log keep to their bounds.
TypeOK ==
    /\ main \in Places
    /\ line \in 0 .. Len(Script) /\ starter \in Side /\ raw \in BOOLEAN
    /\ logAlive \in BOOLEAN /\ log \in 0 .. LogCap
    /\ alive \in [Side -> BOOLEAN] /\ on \in [Side -> BOOLEAN]
    /\ captain \in [Side -> Captains]
    /\ task \in [Side -> SUBSET Tasks] /\ mail \in [Side -> Seq(Volleys)]
    /\ feed \in [Side -> 0 .. FeedCap] /\ cast \in [Side -> BOOLEAN]

Linked == \A s \in Side : captain[s].linked
Stage(s, stage) == {i \in 1 .. Len(mail[s]) : mail[s][i].stage = stage}
Ended == \E s \in Side : captain[s].over

\* The duel drives itself and nobody referees: from the opening shot until a fleet is
\* sunk there is exactly one turn to take, as a coroutine that sleeps or as a shot under
\* way (handlePeerVolley, fireNextVolley); with none it stalls, with two both fire.
OneBaton ==
    Linked /\ main # "setup" =>
      Cardinality(task["red"]) + Cardinality(task["blue"])
        + Cardinality(Stage("red", "fire")) + Cardinality(Stage("blue", "fire"))
          = IF Ended THEN 0 ELSE 1

\* Every part of the program is well formed, and there is one turn to take.
DuelInv == TypeOK /\ OneBaton

\* What a captain knows of the other's board is what happened there, short of the reply
\* still under way, and its counts agree (observeOutcome against receiveShot).
ChartAgrees ==
    Linked => \A s \in Side :
      LET c == captain[s] o == captain[Other(s)]
          told == {mail[Other(s)][i].cell : i \in Stage(Other(s), "reply")}
      IN /\ Cells \ Unknown(c) = Resolved(o) \ told
         /\ \A x \in Cells \ Unknown(c) :
              /\ (c.chart[x] = "miss") <=> (x \in o.miss)
              /\ c.chart[x] = "sunk" => OwnCell(o, x) = "sunk"
         /\ c.fired = Cardinality(Resolved(o))
                        + (IF c.pending = NoShot \/ told # {} THEN 0 ELSE 1)

\* The duel has one winner: who has won has sunk the other's fleet and kept its own, and
\* the other knows it has lost; who has lost gets a winner (receiveShot, observeOutcome).
OneWinner ==
    Linked => \A s \in Side :
      LET c == captain[s] o == captain[Other(s)] IN
      /\ c.won => c.over /\ o.over /\ ~o.won /\ AllShipsSunk(o) /\ ~AllShipsSunk(c)
      /\ c.over /\ ~c.won => o.won \/ \E i \in Stage(s, "reply") : mail[s][i].over

\* A frame is put together from two views taken one after the other, and logs and
\* captains move on in between.  Even so Red's chart shows no shot that Blue's own waters
\* do not show, no chart shows a ship (comment at enemySymbol), the scoreboard adds up, who
\* has lost is shown without a ship afloat, and there are never two winners; a winner
\* announced is shown as one, and the other as beaten (the loop of main, drawScreen).
FrameIsBelievable ==
    screen # <<>> =>
      LET frame == screen[1]
          chart == frame.panels["red"].enemy
          waters == frame.panels["blue"].own
          outcome == [s \in Side |-> frame.meta[s].outcome] IN
      /\ \A x \in Cells :
           /\ chart[x] = "o" => waters[x] = "o"
           /\ chart[x] = "x" => waters[x] \in {"x", "*"}
           /\ chart[x] = "*" => waters[x] = "*"
      /\ \A s \in Side :
           /\ \A x \in Cells : frame.panels[s].enemy[x] # "!"
           /\ outcome[s] = "lost" <=>
                \A ship \in DOMAIN frame.fleet[s] : frame.fleet[s][ship].sunk
           /\ frame.banner = <<"wins", s>> => outcome[s] = "won" /\ outcome[Other(s)] = "lost"
      /\ frame.score["red"].received <= frame.score["blue"].fired
      /\ frame.score["red"].fired <= frame.score["blue"].received + 1
      /\ \E s \in Side : outcome[s] # "won"

\* The callbacks push to a log that is a local of main: none is at work, and no delivery
\* thread is left to start one, when it is destroyed, on the FATAL returns too, which
\* unregister nothing (main, ~Torpedolib).
LogOutlivesCallbacks ==
    ~logAlive => \A s \in Side : ~alive[s] /\ ~cast[s]

Battle == INSTANCE Battleship WITH
    first <- starter,
    fleet <- [s \in Side |-> captain[s].fleet],
    shots <- [s \in Side |-> Resolved(captain[s])]

\* The two captains, which only exchange messages, play the game: strictly in turn, each
\* shot at a new cell, none after a fleet is sunk, whatever main does.
PlaysBattleship == Battle!Spec

\* The program comes to its end without a key being pressed: the duel is decided, main
\* notices, and no callback holds up the shutdown.
Finishes == <>(main = "done")
===============================================================================
