------------------------- MODULE TorpedoDuel_proofs -------------------------
(***************************************************************************)
(* Proofs about TorpedoDuel: the captains hand one turn to each other,     *)
(* know of each other what happened, agree on the winner and play the      *)
(* game; what main draws is consistent and its log outlives the callbacks. *)
(***************************************************************************)
EXTENDS TorpedoDuel, Integers, FiniteSetTheorems, TLAPS

\* Expanded in every leaf: the tuples behind UNCHANGED
USE DEF mainVars, logVars, contextVars, vars

LEMMA Bounds == FeedCap \in Nat \ {0} /\ LogCap \in Nat \ {0}
BY DuelAssumption

-----------------------------------------------------------------------------
(* Captains *)

LEMMA NoShotIs == NoShot \in Shots /\ NoShot.id = 0
<1>1. (CHOOSE x \in Cells : TRUE) \in Cells BY DuelAssumption
<1> QED BY <1>1 DEF NoShot, Shots

LEMMA NewCaptainIs ==
    /\ NewCaptain \in Captains /\ NoCaptain \in Captains
    /\ \A c \in {NewCaptain, NoCaptain} :
         /\ c.hit = {} /\ c.miss = {} /\ c.fleet = {} /\ c.fired = 0 /\ c.pending = NoShot
         /\ c.chart = [x \in Cells |-> "unknown"] /\ ~c.over /\ ~c.won /\ ~c.linked
    /\ NewCaptain.live
<1>1. NewCaptain \in Captains BY NoShotIs DEF NewCaptain, Captains, Marks
<1>2. NoCaptain \in Captains BY <1>1 DEF NoCaptain, Captains
<1>3. NoCaptain = [NewCaptain EXCEPT !.live = FALSE] BY DEF NoCaptain
<1> QED BY <1>1, <1>2, <1>3 DEF NewCaptain

LEMMA UnlinkedIs ==
    ASSUME NEW c \in Captains
    PROVE  /\ Unlinked(c) \in Captains
           /\ ~Unlinked(c).linked /\ ~Unlinked(c).over /\ ~Unlinked(c).won
           /\ Unlinked(c).pending = NoShot
           /\ Unlinked(c).live = c.live /\ Unlinked(c).fleet = c.fleet
           /\ Unlinked(c).hit = c.hit /\ Unlinked(c).miss = c.miss
           /\ Unlinked(c).chart = c.chart /\ Unlinked(c).fired = c.fired
BY NoShotIs DEF Unlinked, Captains

\* d is what c becomes when it aims at x
Planned(c, x, d) ==
    /\ d \in Captains
    /\ d.pending = [id |-> c.fired + 1, cell |-> x] /\ d.fired = c.fired + 1
    /\ d.live = c.live /\ d.linked = c.linked /\ d.over = c.over /\ d.won = c.won
    /\ d.fleet = c.fleet /\ d.hit = c.hit /\ d.miss = c.miss /\ d.chart = c.chart

LEMMA PlanIs ==
    ASSUME NEW c \in Captains, NEW x \in Cells, NEW d, d = PlanNextShot(c, x)
    PROVE  Planned(c, x, d)
<1>1. c.fired \in Nat BY DEF Captains
<1>2. [id |-> c.fired + 1, cell |-> x] \in Shots BY <1>1 DEF Shots
<1>3. PICK p \in Shots : p = [id |-> c.fired + 1, cell |-> x] BY <1>2
<1>4. PICK n \in Nat : n = c.fired + 1 BY <1>1
<1> DEFINE e == [c EXCEPT !.pending = p, !.fired = n, !.started = TRUE]
<1>5. d = e BY <1>3, <1>4 DEF PlanNextShot
<1>6. /\ e \in Captains /\ e.pending = p /\ e.fired = n
      /\ e.live = c.live /\ e.linked = c.linked /\ e.over = c.over /\ e.won = c.won
      /\ e.fleet = c.fleet /\ e.hit = c.hit /\ e.miss = c.miss /\ e.chart = c.chart
  BY DEF Captains
<1> HIDE DEF e
<1> QED BY <1>3, <1>4, <1>5, <1>6 DEF Planned

\* d is what c becomes when it is shot at x
Received(c, x, d) ==
    /\ d \in Captains
    /\ d.hit = IF x \in UNION c.fleet THEN c.hit \cup {x} ELSE c.hit
    /\ d.miss = IF x \in UNION c.fleet THEN c.miss ELSE c.miss \cup {x}
    /\ d.over <=> AllShipsSunk(d)
    /\ d.won <=> c.won /\ ~AllShipsSunk(d)
    /\ d.live = c.live /\ d.linked = c.linked /\ d.fleet = c.fleet
    /\ d.chart = c.chart /\ d.fired = c.fired /\ d.pending = c.pending

LEMMA ReceiveIs ==
    ASSUME NEW c \in Captains, NEW x \in Cells, NEW d, d = ReceiveShot(c, x)
    PROVE  Received(c, x, d)
<1> DEFINE e == [c EXCEPT !.started = TRUE,
                          !.hit = IF x \in UNION c.fleet THEN @ \cup {x} ELSE @,
                          !.miss = IF x \in UNION c.fleet THEN @ ELSE @ \cup {x}]
<1>1. /\ e \in Captains
      /\ e.hit = IF x \in UNION c.fleet THEN c.hit \cup {x} ELSE c.hit
      /\ e.miss = IF x \in UNION c.fleet THEN c.miss ELSE c.miss \cup {x}
      /\ e.live = c.live /\ e.linked = c.linked /\ e.fleet = c.fleet
      /\ e.chart = c.chart /\ e.fired = c.fired /\ e.pending = c.pending /\ e.won = c.won
  BY DEF Captains
<1>2. d = [e EXCEPT !.over = AllShipsSunk(e), !.won = @ /\ ~AllShipsSunk(e)]
  BY DEF ReceiveShot
<1> HIDE DEF e
<1>6. PICK b \in BOOLEAN : b = AllShipsSunk(e) BY DEF AllShipsSunk
<1>7. PICK w \in BOOLEAN : w = (e.won /\ ~b) OBVIOUS
<1> DEFINE g == [e EXCEPT !.over = b, !.won = w]
<1>3. d = g BY <1>2, <1>6, <1>7
<1>8. /\ g \in Captains /\ g.hit = e.hit /\ g.miss = e.miss /\ g.live = e.live
      /\ g.linked = e.linked /\ g.fleet = e.fleet /\ g.chart = e.chart /\ g.fired = e.fired
      /\ g.pending = e.pending /\ g.over = b /\ g.won = w
  BY <1>1 DEF Captains
<1> HIDE DEF g
<1>4. /\ d \in Captains /\ d.hit = e.hit /\ d.miss = e.miss /\ d.live = e.live
      /\ d.linked = e.linked /\ d.fleet = e.fleet /\ d.chart = e.chart /\ d.fired = e.fired
      /\ d.pending = e.pending /\ d.over = b /\ d.won = w
  BY <1>3, <1>6, <1>7, <1>8
<1>5. AllShipsSunk(d) <=> AllShipsSunk(e) BY <1>4 DEF AllShipsSunk, Sinks
<1>9. (d.over <=> AllShipsSunk(d)) /\ (d.won <=> c.won /\ ~AllShipsSunk(d))
  BY <1>1, <1>4, <1>5, <1>6, <1>7
<1> QED BY <1>1, <1>4, <1>9 DEF Received

LEMMA ReceiveType ==
    ASSUME NEW c \in Captains, NEW x \in Cells
    PROVE  ReceiveShot(c, x) \in Captains
<1>1. PICK d : d = ReceiveShot(c, x) OBVIOUS
<1>2. d \in Captains BY <1>1, ReceiveIs DEF Received
<1> QED BY <1>1, <1>2

\* d is what c becomes when v tells it of its shot
Informed(c, v, d) ==
    /\ d \in Captains
    /\ d.pending = NoShot
    /\ d.chart = [c.chart EXCEPT ![v.cell] =
                    IF v.hit THEN (IF v.sunk THEN "sunk" ELSE "hit") ELSE "miss"]
    /\ d.over = (c.over \/ v.over) /\ d.won = (c.won \/ v.over)
    /\ d.live = c.live /\ d.linked = c.linked /\ d.fleet = c.fleet
    /\ d.hit = c.hit /\ d.miss = c.miss /\ d.fired = c.fired

LEMMA ObserveIs ==
    ASSUME NEW c \in Captains, NEW v \in Volleys, NEW d, d = ObserveOutcome(c, v)
    PROVE  Informed(c, v, d)
<1>1. v.cell \in Cells /\ v.over \in BOOLEAN BY DEF Volleys
<1>2. PICK m \in Marks : m = IF v.hit THEN (IF v.sunk THEN "sunk" ELSE "hit") ELSE "miss"
  BY DEF Marks
<1>3. [c.chart EXCEPT ![v.cell] = m] \in [Cells -> Marks] BY <1>1 DEF Captains
<1>4. PICK q \in [Cells -> Marks] : q = [c.chart EXCEPT ![v.cell] = m] BY <1>3
<1>5. PICK o, w \in BOOLEAN : o = (c.over \/ v.over) /\ w = (c.won \/ v.over) OBVIOUS
<1>6. d = [c EXCEPT !.started = TRUE, !.pending = NoShot, !.chart[v.cell] = m,
                    !.over = @ \/ v.over, !.won = @ \/ v.over]
  BY <1>2 DEF ObserveOutcome
<1> DEFINE e == [c EXCEPT !.started = TRUE, !.pending = NoShot, !.chart = q, !.over = o, !.won = w]
<1>7. d = e BY <1>4, <1>5, <1>6 DEF Captains
<1>8. /\ e \in Captains /\ e.pending = NoShot /\ e.chart = q /\ e.over = o /\ e.won = w
      /\ e.live = c.live /\ e.linked = c.linked /\ e.fleet = c.fleet
      /\ e.hit = c.hit /\ e.miss = c.miss /\ e.fired = c.fired
  BY NoShotIs DEF Captains
<1> HIDE DEF e
<1>9. /\ d.chart = [c.chart EXCEPT ![v.cell] =
                      IF v.hit THEN (IF v.sunk THEN "sunk" ELSE "hit") ELSE "miss"]
      /\ d.over = (c.over \/ v.over) /\ d.won = (c.won \/ v.over)
  BY <1>2, <1>4, <1>5, <1>7, <1>8
<1> QED BY <1>7, <1>8, <1>9 DEF Informed

LEMMA FireNextIs ==
    ASSUME NEW c \in Captains, NEW trigger \in {"opening", "counter"},
           NEW next \in FireNextVolley(c, trigger)
    PROVE  \/ /\ Playing(c) /\ c.pending = NoShot /\ Unknown(c) # {}
              /\ next.says = 0
              /\ \E x \in Unknown(c) :
                   /\ next.captain = PlanNextShot(c, x) /\ next.captain \in Captains
                   /\ next.sleeps = {[does |-> "launch", id |-> c.fired + 1, cell |-> x,
                                      trigger |-> trigger]}
                   /\ next.sleeps \subseteq Tasks
           \/ /\ ~(Playing(c) /\ c.pending = NoShot /\ Unknown(c) # {})
              /\ next.says = 1 /\ next.captain = c /\ next.sleeps = {}
<1>1. CASE Playing(c) /\ c.pending = NoShot /\ Unknown(c) # {}
  <2>1. PICK x \in ChooseShot(c) :
          next = [captain |-> PlanNextShot(c, x), says |-> 0,
                  sleeps |-> {[does |-> "launch", id |-> c.fired + 1, cell |-> x,
                               trigger |-> trigger]}]
    BY <1>1 DEF FireNextVolley
  <2>2. x \in Unknown(c) BY DEF ChooseShot, FinishContact
  <2>3. x \in Cells /\ c.fired \in Nat BY <2>2 DEF Unknown, Captains
  <2>4. PlanNextShot(c, x) \in Captains
    <3>1. Planned(c, x, PlanNextShot(c, x)) BY <2>3, PlanIs
    <3> QED BY <3>1 DEF Planned
  <2>5. [does |-> "launch", id |-> c.fired + 1, cell |-> x, trigger |-> trigger] \in Tasks
    BY <2>3 DEF Tasks
  <2> QED BY <1>1, <2>1, <2>2, <2>4, <2>5
<1>2. CASE ~(Playing(c) /\ c.pending = NoShot /\ Unknown(c) # {})
  BY <1>2 DEF FireNextVolley
<1> QED BY <1>1, <1>2

-----------------------------------------------------------------------------
(* The script, and the types *)

LEMMA ScriptIs ==
    /\ Len(Script) = 11
    /\ Script[1] = <<"create", "red">> /\ Script[2] = <<"create", "blue">>
    /\ Script[3] = <<"register", "red">> /\ Script[4] = <<"register", "blue">>
    /\ Script[5] = <<"initialize", "red">> /\ Script[6] = <<"initialize", "blue">>
    /\ Script[7] = <<"place", "red">> /\ Script[8] = <<"place", "blue">>
    /\ Script[9] = <<"link", "red">> /\ Script[10] = <<"link", "blue">>
    /\ Script[11] = <<"start", starter>>
BY DEF Script

\* The lines of the captain s, when the one of red is the n-th
Here(s, n) == main = "setup" /\ line = IF s = "red" THEN n ELSE n + 1

LEMMA AtLine ==
    ASSUME line \in 0 .. 11, NEW s \in Side
    PROVE  /\ At("create", s) => Here(s, 0)
           /\ At("register", s) => Here(s, 2)
           /\ At("initialize", s) => Here(s, 4)
           /\ At("place", s) => Here(s, 6)
           /\ At("link", s) => Here(s, 8)
           /\ At("start", s) => main = "setup" /\ line = 10 /\ s = starter
<1>1. line < Len(Script) => line \in 0 .. 10 BY ScriptIs
<1>2. line \in 0 .. 10 => Script[line + 1] \in
        {IF line = 0 THEN <<"create", "red">> ELSE IF line = 1 THEN <<"create", "blue">>
         ELSE IF line = 2 THEN <<"register", "red">> ELSE IF line = 3 THEN <<"register", "blue">>
         ELSE IF line = 4 THEN <<"initialize", "red">> ELSE IF line = 5 THEN <<"initialize", "blue">>
         ELSE IF line = 6 THEN <<"place", "red">> ELSE IF line = 7 THEN <<"place", "blue">>
         ELSE IF line = 8 THEN <<"link", "red">> ELSE IF line = 9 THEN <<"link", "blue">>
         ELSE <<"start", starter>>}
  BY ScriptIs
<1> QED BY <1>1, <1>2 DEF At, Here, Side

LEMMA TypesInit == Init => TypeOK
<1> SUFFICES ASSUME Init PROVE TypeOK
  OBVIOUS
<1>1. captain \in [Side -> Captains] BY NewCaptainIs DEF Init
<1>2. 0 \in 0 .. FeedCap /\ 0 \in 0 .. LogCap /\ <<>> \in Seq(Volleys) BY Bounds
<1>3. alive \in [Side -> BOOLEAN] /\ on \in [Side -> BOOLEAN] BY DEF Init
<1>4. line \in 0 .. Len(Script) BY ScriptIs DEF Init
<1>5. task \in [Side -> SUBSET Tasks] BY DEF Init
<1>6. mail \in [Side -> Seq(Volleys)] BY <1>2 DEF Init
<1>7. feed \in [Side -> 0 .. FeedCap] /\ cast \in [Side -> BOOLEAN] BY <1>2 DEF Init
<1>8. main = "setup" /\ starter \in Side /\ raw = FALSE /\ logAlive = TRUE /\ log = 0
  BY DEF Init
<1> QED BY <1>1, <1>2, <1>3, <1>4, <1>5, <1>6, <1>7, <1>8 DEF TypeOK, Places

LEMMA SayIs ==
    ASSUME TypeOK, NEW s \in Side, NEW n \in Nat, Say(s, n)
    PROVE  feed' \in [Side -> 0 .. FeedCap]
<1>1. feed[s] \in 0 .. FeedCap BY DEF TypeOK
<1>2. feed[s] + n < FeedCap => feed[s] + n \in 0 .. FeedCap BY <1>1, Bounds
<1>3. FeedCap \in 0 .. FeedCap BY Bounds
<1>4. PICK m \in 0 .. FeedCap : m = IF ~on[s] THEN feed[s]
                                    ELSE IF feed[s] + n < FeedCap THEN feed[s] + n ELSE FeedCap
  BY <1>1, <1>2, <1>3
<1>5. feed' = [feed EXCEPT ![s] = m] BY <1>4 DEF Say
<1> QED BY <1>5 DEF TypeOK

LEMMA PushIs == TypeOK /\ Push => log' \in 0 .. LogCap
BY Bounds DEF Push, TypeOK

LEMMA EmitIs ==
    ASSUME TypeOK, NEW s \in Side, NEW v \in Volleys, EmitVolley(s, v)
    PROVE  /\ mail' \in [Side -> Seq(Volleys)] /\ mail'[Other(s)] = mail[Other(s)]
           /\ mail'[s] = IF captain[Other(s)].linked THEN Append(mail[s], v) ELSE mail[s]
<1>1. mail[s] \in Seq(Volleys) BY DEF TypeOK
<1>4. Append(mail[s], v) \in Seq(Volleys) BY <1>1
<1>2. PICK m \in Seq(Volleys) : m = Append(mail[s], v) BY <1>4
<1>3. mail' = IF captain[Other(s)].linked THEN [mail EXCEPT ![s] = m] ELSE mail
  BY <1>2 DEF EmitVolley
<1> QED BY <1>2, <1>3 DEF TypeOK, Side, Other

LEMMA ReplyIs ==
    ASSUME NEW t \in Tasks, NEW d \in Captains, NEW r, r = Reply(t, d)
    PROVE  /\ r \in Volleys /\ r.stage = "reply" /\ r.id = t.id /\ r.cell = t.cell
           /\ r.hit <=> t.cell \in d.hit
           /\ r.over = d.over
           /\ r.sunk <=> \E ship \in d.fleet : t.cell \in ship /\ Sinks(d, ship)
<1>5. (t.cell \in d.hit) \in BOOLEAN OBVIOUS
<1>1. PICK h \in BOOLEAN : h = (t.cell \in d.hit) BY <1>5, Zenon
<1>4. PICK k \in BOOLEAN : k = (\E ship \in d.fleet : t.cell \in ship /\ Sinks(d, ship))
  OBVIOUS
<1>2. r = [stage |-> "reply", id |-> t.id, cell |-> t.cell, hit |-> h, sunk |-> k,
           over |-> d.over]
  BY <1>1, <1>4 DEF Reply
<1>3. t.id \in Nat /\ t.cell \in Cells /\ d.over \in BOOLEAN BY DEF Tasks, Captains
<1>6. /\ r \in Volleys /\ r.stage = "reply" /\ r.id = t.id /\ r.cell = t.cell
      /\ r.hit = h /\ r.over = d.over /\ r.sunk = k
  BY <1>2, <1>3 DEF Volleys
<1> QED BY <1>1, <1>4, <1>6

LEMMA FireIs ==
    ASSUME NEW t \in Tasks
    PROVE  /\ Fire(t) \in Volleys /\ Fire(t).stage = "fire"
           /\ Fire(t).id = t.id /\ Fire(t).cell = t.cell
<1>1. t.id \in Nat /\ t.cell \in Cells BY DEF Tasks
<1> QED BY <1>1 DEF Fire, Volleys

\* What the loop of main() does not touch
LEMMA ObserveIsRemote ==
    ASSUME TypeOK, Observe
    PROVE  /\ UNCHANGED <<line, starter, logVars, contextVars>> /\ raw' \in BOOLEAN
           /\ main \in {"started", "key", "viewRed", "viewBlue", "readLast", "draw",
                        "finalRed", "finalBlue", "drawFinal"}
           /\ main' \in {"key", "viewRed", "viewBlue", "readLast", "draw",
                         "finalRed", "finalBlue", "drawFinal", "cleanUp"}
<1>1. CASE OpenTerminal BY <1>1 DEF OpenTerminal, RawMode
<1>2. CASE KeyPressed BY <1>2 DEF KeyPressed, TypeOK
<1>3. CASE ReadLast BY <1>3 DEF ReadLast, TypeOK
<1>4. CASE Draw BY <1>4 DEF Draw, TypeOK
<1>5. CASE DrawFinal BY <1>5 DEF DrawFinal, TypeOK
<1>6. CASE \/ GetPublicBoard("red", "viewRed", "viewBlue")
           \/ GetPublicBoard("blue", "viewBlue", "readLast")
           \/ GetPublicBoard("red", "finalRed", "finalBlue")
           \/ GetPublicBoard("blue", "finalBlue", "drawFinal")
  BY <1>6 DEF GetPublicBoard, TypeOK
<1> QED BY <1>1, <1>2, <1>3, <1>4, <1>5, <1>6 DEF Observe

LEMMA TypesFollow ==
    ASSUME
        /\ main' \in Places
        /\ line' \in 0 .. 11 /\ starter' \in Side /\ raw' \in BOOLEAN /\ logAlive' \in BOOLEAN
        /\ log' \in 0 .. LogCap
        /\ alive' \in [Side -> BOOLEAN] /\ on' \in [Side -> BOOLEAN]
        /\ captain' \in [Side -> Captains]
        /\ task' \in [Side -> SUBSET Tasks] /\ mail' \in [Side -> Seq(Volleys)]
        /\ feed' \in [Side -> 0 .. FeedCap] /\ cast' \in [Side -> BOOLEAN]
    PROVE  TypeOK'
<1>1. Len(Script') = 11 BY ScriptIs DEF Script
<1> QED BY <1>1 DEF TypeOK

LEMMA TypesStep == TypeOK /\ [Next]_vars => TypeOK'
<1> SUFFICES ASSUME TypeOK, [Next]_vars PROVE TypeOK'
  OBVIOUS
<1>a. /\ main \in Places /\ line \in 0 .. 11
      /\ Len(Script) = 11 /\ Len(Script') = 11
      /\ starter \in Side /\ raw \in BOOLEAN /\ logAlive \in BOOLEAN /\ log \in 0 .. LogCap
      /\ alive \in [Side -> BOOLEAN] /\ on \in [Side -> BOOLEAN]
      /\ captain \in [Side -> Captains]
      /\ task \in [Side -> SUBSET Tasks] /\ mail \in [Side -> Seq(Volleys)]
      /\ feed \in [Side -> 0 .. FeedCap] /\ cast \in [Side -> BOOLEAN]
  <2>1. Len(Script') = 11 BY ScriptIs DEF Script
  <2> QED BY <2>1, ScriptIs DEF TypeOK
<1>0. CASE UNCHANGED vars BY <1>0, <1>a DEF TypeOK
<1>1. CASE Fatal BY <1>1, <1>a, TypesFollow DEF Fatal, Places
<1>2. ASSUME NEW s \in Side, SetUp(s) PROVE TypeOK'
  <2>1. CASE CreateContext(s)
    <3>1. line' \in 0 .. 11 BY <1>a, <2>1, AtLine DEF CreateContext, Here, Advance
    <3> QED BY <1>a, TypesFollow, <2>1, <3>1 DEF CreateContext, Advance
  <2>2. CASE RegisterCallbacks(s)
    <3>1. line' \in 0 .. 11 BY <1>a, <2>2, AtLine DEF RegisterCallbacks, Here, Advance
    <3> QED BY <1>a, TypesFollow, <2>2, <3>1, PushIs DEF RegisterCallbacks, Advance
  <2>3. CASE InitializeCaptain(s)
    <3>1. line' \in 0 .. 11 BY <1>a, <2>3, AtLine DEF InitializeCaptain, Here, Advance
    <3>2. feed' \in [Side -> 0 .. FeedCap] BY <2>3, SayIs DEF InitializeCaptain
    <3>3. captain' \in [Side -> Captains] BY <1>a, <2>3, NewCaptainIs DEF InitializeCaptain
    <3> QED BY <1>a, TypesFollow, <2>3, <3>1, <3>2, <3>3 DEF InitializeCaptain, Advance
  <2>4. CASE AutoPlaceFleet(s)
    <3>1. line' \in 0 .. 11 BY <1>a, <2>4, AtLine DEF AutoPlaceFleet, Here, Advance
    <3>2. feed' \in [Side -> 0 .. FeedCap] BY <2>4, SayIs DEF AutoPlaceFleet
    <3>3. PICK f \in Fleets : captain' = [captain EXCEPT ![s].fleet = f]
      BY <2>4 DEF AutoPlaceFleet
    <3>c. PICK c \in Captains : c = captain[s] BY <1>a
    <3>4. [c EXCEPT !.fleet = f] \in Captains BY DEF Captains
    <3>5. captain' \in [Side -> Captains] BY <1>a, <3>3, <3>4, <3>c
    <3> QED BY <1>a, TypesFollow, <2>4, <3>1, <3>2, <3>5, PushIs DEF AutoPlaceFleet, Advance
  <2>5. CASE LinkOpponent(s)
    <3>1. line' \in 0 .. 11 BY <1>a, <2>5, AtLine DEF LinkOpponent, Here, Advance
    <3>2. feed' \in [Side -> 0 .. FeedCap] BY <2>5, SayIs DEF LinkOpponent
    <3>3. PICK c \in Captains : c = Unlinked(captain[s]) BY <1>a, UnlinkedIs
    <3>4. [c EXCEPT !.linked = TRUE] \in Captains BY DEF Captains
    <3>5. captain' = [captain EXCEPT ![s] = [c EXCEPT !.linked = TRUE]]
      BY <1>a, <2>5, <3>3 DEF LinkOpponent
    <3>6. captain' \in [Side -> Captains] BY <1>a, <3>4, <3>5
    <3>7. log' \in 0 .. LogCap BY <1>a, <2>5, PushIs DEF LinkOpponent
    <3> QED BY <1>a, TypesFollow, <2>5, <3>1, <3>2, <3>6, <3>7 DEF LinkOpponent, Advance
  <2>6. CASE StartGame(s)
    <3>1. line' \in 0 .. 11 BY <1>a, <2>6, AtLine DEF StartGame
    <3>2. PICK next \in FireNextVolley(captain[s], "opening") :
            /\ captain' = [captain EXCEPT ![s] = next.captain]
            /\ task' = [task EXCEPT ![s] = @ \cup next.sleeps]
            /\ Say(s, 1 + next.says)
      BY <2>6 DEF StartGame
    <3>3. next.captain \in Captains /\ next.sleeps \subseteq Tasks /\ next.says \in Nat
      <4>1. captain[s] \in Captains BY <1>a
      <4> QED BY <4>1, FireNextIs
    <3>4. feed' \in [Side -> 0 .. FeedCap] BY <3>2, <3>3, SayIs
    <3>5. captain' \in [Side -> Captains] /\ task' \in [Side -> SUBSET Tasks]
      BY <1>a, <3>2, <3>3
    <3> QED BY <1>a, TypesFollow, <2>6, <3>1, <3>4, <3>5 DEF StartGame, Places
  <2> QED BY <1>2, <2>1, <2>2, <2>3, <2>4, <2>5, <2>6 DEF SetUp
<1>3. CASE Observe BY <1>3, <1>a, ObserveIsRemote, TypesFollow DEF Places
<1>4. CASE Return
  <2>1. CASE Cleanup BY <2>1, <1>a, TypesFollow DEF Cleanup, Restore, Places
  <2>2. ASSUME NEW s \in Side, NEW from, NEW to \in {"offBlue", "destroyBlue"},
               UnregisterCallbacks(s, from, to)
        PROVE  TypeOK'
    BY <2>2, <1>a, TypesFollow DEF UnregisterCallbacks, Places
  <2>3. ASSUME NEW s \in Side, NEW from, NEW to \in {"joinBlue", "joinRed"}, Shutdown(s, from, to)
        PROVE  TypeOK'
    <3>1. PICK c \in Captains : c = Unlinked(captain[s]) BY <1>a, UnlinkedIs
    <3>2. [c EXCEPT !.live = FALSE] \in Captains BY DEF Captains
    <3>3. captain' = [captain EXCEPT ![s] = [c EXCEPT !.live = FALSE]]
      BY <1>a, <2>3, <3>1 DEF Shutdown
    <3>4. captain' \in [Side -> Captains] BY <1>a, <3>2, <3>3
    <3>5. mail' \in [Side -> Seq(Volleys)]
      <4>1. <<>> \in Seq(Volleys) OBVIOUS
      <4> QED BY <1>a, <2>3, <4>1 DEF Shutdown
    <3> QED BY <2>3, <1>a, TypesFollow, <3>4, <3>5 DEF Shutdown, Places
  <2>4. ASSUME NEW s \in Side, NEW from, NEW to \in {"destroyRed", "destroyLog"}, Join(s, from, to)
        PROVE  TypeOK'
    <3>1. 0 \in 0 .. FeedCap BY Bounds
    <3> QED BY <2>4, <1>a, TypesFollow, <3>1 DEF Join, Places
  <2>5. CASE DestroyLog
    <3>1. 0 \in 0 .. LogCap BY Bounds
    <3> QED BY <2>5, <1>a, TypesFollow, <3>1 DEF DestroyLog, Places
  <2> QED BY <1>4, <2>1, <2>2, <2>3, <2>4, <2>5 DEF Return, Side
<1>5. ASSUME NEW s \in Side, HearFire(s) PROVE TypeOK'
  <2> DEFINE box == mail[Other(s)]
  <2>1. Other(s) \in Side BY DEF Side, Other
  <2>2. box \in Seq(Volleys) /\ box # <<>> BY <1>a, <1>5, <2>1 DEF HearFire
  <2>3. PICK v \in Volleys : v = Head(box) BY <2>2
  <2>t. Tail(box) \in Seq(Volleys) BY <2>2
  <2>4. PICK m \in Seq(Volleys) : m = Tail(box) BY <2>t
  <2>5. mail' = [mail EXCEPT ![Other(s)] = m] BY <1>a, <1>5, <2>1, <2>4 DEF HearFire
  <2>6. mail' \in [Side -> Seq(Volleys)] BY <1>a, <2>5
  <2>7. CASE captain[s].over BY <1>5, <1>a, TypesFollow, <2>6, <2>7 DEF HearFire
  <2>8. CASE ~captain[s].over
    <3>c. PICK c \in Captains : c = captain[s] BY <1>a
    <3>1. [c EXCEPT !.started = TRUE] \in Captains BY DEF Captains
    <3>d. captain' = [captain EXCEPT ![s] = [c EXCEPT !.started = TRUE]]
      BY <1>a, <1>5, <2>8, <3>c DEF HearFire
    <3>2. captain' \in [Side -> Captains] BY <1>a, <3>1, <3>d
    <3>3. PICK t \in Tasks : t = [does |-> "receive", id |-> v.id, cell |-> v.cell,
                                  trigger |-> "fire"]
      BY DEF Tasks, Volleys
    <3>4. task' = [task EXCEPT ![s] = @ \cup {t}] BY <1>5, <2>3, <2>8, <3>3 DEF HearFire
    <3>5. task' \in [Side -> SUBSET Tasks] BY <1>a, <3>4
    <3>6. feed' \in [Side -> 0 .. FeedCap] BY <1>5, <2>8, SayIs DEF HearFire
    <3> QED BY <1>5, <1>a, TypesFollow, <2>6, <3>2, <3>5, <3>6 DEF HearFire
  <2> QED BY <2>7, <2>8
<1>6. ASSUME NEW s \in Side, HearReply(s) PROVE TypeOK'
  <2> DEFINE box == mail[Other(s)]
  <2>1. Other(s) \in Side BY DEF Side, Other
  <2>2. box \in Seq(Volleys) /\ box # <<>> BY <1>a, <1>6, <2>1 DEF HearReply
  <2>3. PICK v \in Volleys : v = Head(box) BY <2>2
  <2>t. Tail(box) \in Seq(Volleys) BY <2>2
  <2>4. PICK m \in Seq(Volleys) : m = Tail(box) BY <2>t
  <2>5. mail' = [mail EXCEPT ![Other(s)] = m] BY <1>a, <1>6, <2>1, <2>4 DEF HearReply
  <2>6. mail' \in [Side -> Seq(Volleys)] BY <1>a, <2>5
  <2>7. captain' \in [Side -> Captains]
    <3>1. ObserveOutcome(captain[s], v) \in Captains
      <4>1. PICK c \in Captains : c = captain[s] BY <1>a
      <4>2. PICK d : d = ObserveOutcome(c, v) OBVIOUS
      <4>3. Informed(c, v, d) BY <4>2, ObserveIs
      <4> QED BY <4>1, <4>2, <4>3 DEF Informed
    <3> QED BY <1>6, <1>a, <2>3, <3>1 DEF HearReply
  <2>8. feed' \in [Side -> 0 .. FeedCap]
    <3>1. PICK n \in Nat :
            n = IF captain[s].over THEN 0
                ELSE IF captain[s].pending = [id |-> v.id, cell |-> v.cell] /\ v.over THEN 2 ELSE 1
      OBVIOUS
    <3>2. Say(s, n) BY <1>6, <2>3, <3>1 DEF HearReply
    <3> QED BY <3>2, SayIs
  <2> QED BY <1>6, <1>a, TypesFollow, <2>6, <2>7, <2>8 DEF HearReply
<1>7. ASSUME NEW s \in Side, RefuseShot(s) PROVE TypeOK'
  <2>1. feed' \in [Side -> 0 .. FeedCap] BY <1>7, SayIs DEF RefuseShot
  <2>2. task' \in [Side -> SUBSET Tasks] BY <1>7, <1>a DEF RefuseShot
  <2> QED BY <1>7, <1>a, TypesFollow, <2>1, <2>2 DEF RefuseShot
<1>8. ASSUME NEW s \in Side, TakeShot(s) PROVE TypeOK'
  <2>1. PICK t \in task[s] : LET d == ReceiveShot(captain[s], t.cell) IN
          /\ EmitVolley(s, Reply(t, d))
          /\ \E next \in IF d.over THEN {[captain |-> d, says |-> 0, sleeps |-> {}]}
                                   ELSE FireNextVolley(d, "counter") :
               /\ captain' = [captain EXCEPT ![s] = next.captain]
               /\ task' = [task EXCEPT ![s] = (@ \ {t}) \cup next.sleeps]
               /\ Say(s, (IF d.over THEN 3 ELSE 2) + next.says)
    BY <1>8 DEF TakeShot
  <2>2. t \in Tasks /\ t.cell \in Cells /\ captain[s] \in Captains BY <1>a DEF Tasks
  <2>a. ReceiveShot(captain[s], t.cell) \in Captains BY <2>2, ReceiveType
  <2>3. PICK d \in Captains : d = ReceiveShot(captain[s], t.cell) BY <2>a
  <2>4. PICK r \in Volleys : r = Reply(t, d) BY <2>2, ReplyIs
  <2>5. mail' \in [Side -> Seq(Volleys)] BY <2>1, <2>3, <2>4, EmitIs
  <2>6. PICK next \in IF d.over THEN {[captain |-> d, says |-> 0, sleeps |-> {}]}
                                ELSE FireNextVolley(d, "counter") :
               /\ captain' = [captain EXCEPT ![s] = next.captain]
               /\ task' = [task EXCEPT ![s] = (@ \ {t}) \cup next.sleeps]
               /\ Say(s, (IF d.over THEN 3 ELSE 2) + next.says)
    BY <2>1, <2>3
  <2>7. next.captain \in Captains /\ next.sleeps \subseteq Tasks /\ next.says \in Nat
    <3>1. CASE d.over BY <2>6, <3>1
    <3>2. CASE ~d.over
      <4>1. next \in FireNextVolley(d, "counter") BY <2>6, <3>2
      <4> QED BY <4>1, FireNextIs
    <3> QED BY <3>1, <3>2
  <2>8. captain' \in [Side -> Captains] /\ task' \in [Side -> SUBSET Tasks]
    BY <1>a, <2>6, <2>7
  <2>9. feed' \in [Side -> 0 .. FeedCap]
    <3>1. PICK n \in Nat : n = (IF d.over THEN 3 ELSE 2) + next.says BY <2>7
    <3> QED BY <2>6, <3>1, SayIs
  <2> QED BY <1>8, <1>a, TypesFollow, <2>5, <2>8, <2>9 DEF TakeShot
<1>9. ASSUME NEW s \in Side, Launch(s) PROVE TypeOK'
  <2>1. PICK t \in task[s] :
          /\ EmitVolley(s, Fire(t)) /\ task' = [task EXCEPT ![s] = @ \ {t}]
          /\ main' = IF t.trigger = "opening" THEN "started" ELSE main
    BY <1>9 DEF Launch
  <2>2. t \in Tasks BY <1>a
  <2>3. PICK v \in Volleys : v = Fire(t) BY <2>2, FireIs
  <2>4. mail' \in [Side -> Seq(Volleys)] BY <2>1, <2>3, EmitIs
  <2>5. feed' \in [Side -> 0 .. FeedCap] BY <1>9, SayIs DEF Launch
  <2>6. task' \in [Side -> SUBSET Tasks] BY <1>a, <2>1
  <2> QED BY <1>9, <1>a, TypesFollow, <2>1, <2>4, <2>5, <2>6 DEF Launch, Places
<1>10. ASSUME NEW s \in Side, Deliver(s) PROVE TypeOK'
  <2>0. feed[s] \in 0 .. FeedCap /\ feed[s] > 0 BY <1>10, <1>a DEF Deliver
  <2>p. feed[s] - 1 \in 0 .. FeedCap BY <2>0, Bounds
  <2>1. PICK n \in 0 .. FeedCap : n = feed[s] - 1 BY <2>p
  <2>2. feed' = [feed EXCEPT ![s] = n] BY <1>10, <1>a, <2>1 DEF Deliver
  <2>3. feed' \in [Side -> 0 .. FeedCap] /\ cast' \in [Side -> BOOLEAN]
    BY <1>10, <1>a, <2>2 DEF Deliver
  <2> QED BY <1>10, <1>a, TypesFollow, <2>3 DEF Deliver
<1>11. ASSUME NEW s \in Side, Callback(s) PROVE TypeOK'
  <2>1. log' \in 0 .. LogCap BY <1>11, PushIs DEF Callback
  <2> QED BY <1>11, <1>a, TypesFollow, <2>1 DEF Callback
<1> QED
  BY <1>0, <1>1, <1>2, <1>3, <1>4, <1>5, <1>6, <1>7, <1>8, <1>9, <1>10, <1>11
  DEF Next, Main, Processing, Delivery

-----------------------------------------------------------------------------
(* What a captain knows of the other *)

Fresh(c) == /\ c.hit = {} /\ c.miss = {} /\ c.chart = [x \in Cells |-> "unknown"]
            /\ c.fired = 0 /\ c.pending = NoShot /\ ~c.over /\ ~c.won

\* The shots are sorted into hits and misses, and who has no ship afloat has lost
Sound(c) == /\ c.fleet # {} /\ c.hit \subseteq UNION c.fleet /\ c.miss \cap UNION c.fleet = {}
            /\ AllShipsSunk(c) <=> c.over /\ ~c.won

\* The chart of a is what happened on the board of b, but for the cells not told yet
Knows(a, b, untold) ==
    \A x \in Cells :
      /\ a.chart[x] # "unknown" <=> x \in Resolved(b) /\ x \notin untold
      /\ a.chart[x] = "miss" => x \in b.miss
      /\ a.chart[x] = "hit" => x \in b.hit
      /\ a.chart[x] = "sunk" => OwnCell(b, x) = "sunk"

\* a has no shot in the air
Settled(a, b) == a.pending = NoShot /\ Knows(a, b, {}) /\ a.fired = Cardinality(Resolved(b))

\* The last shot of a was taken by b, and r will tell
Answered(a, b, r) ==
    /\ r.stage = "reply" /\ a.pending = [id |-> r.id, cell |-> r.cell] /\ r.id # 0
    /\ Knows(a, b, {r.cell}) /\ a.fired = Cardinality(Resolved(b))
    /\ r.cell \in Resolved(b) /\ (r.hit <=> r.cell \in b.hit)
    /\ (r.sunk => OwnCell(b, r.cell) = "sunk") /\ (r.over <=> b.over)

\* The last shot of a, at x, was not taken by b yet
Aiming(a, b, id, x) ==
    /\ a.pending = [id |-> id, cell |-> x] /\ id # 0
    /\ a.chart[x] = "unknown" /\ Knows(a, b, {}) /\ a.fired = Cardinality(Resolved(b)) + 1

SameBoard(c, d) == d.hit = c.hit /\ d.miss = c.miss /\ d.fleet = c.fleet
SameChart(c, d) == d.chart = c.chart /\ d.fired = c.fired /\ d.pending = c.pending
SameEnd(c, d) == d.over = c.over /\ d.won = c.won

LEMMA SunkIs ==
    ASSUME NEW c, NEW x
    PROVE  OwnCell(c, x) = "sunk" <=> \E ship \in c.fleet : x \in ship /\ ship \subseteq c.hit
BY DEF OwnCell, Sinks

LEMMA ResolvedIs ==
    ASSUME NEW c \in Captains
    PROVE  /\ Resolved(c) \subseteq Cells /\ IsFiniteSet(Resolved(c))
           /\ Cardinality(Resolved(c)) \in Nat
<1>1. Resolved(c) \subseteq Cells BY DEF Resolved, Captains
<1>2. IsFiniteSet(Cells) BY DuelAssumption
<1>3. IsFiniteSet(Resolved(c)) BY <1>1, <1>2, FS_Subset
<1> QED BY <1>1, <1>3, FS_CardinalityType

LEMMA ShipsAre ==
    ASSUME NEW c \in Captains, c.fleet # {}
    PROVE  /\ c.fleet \in Fleets /\ UNION c.fleet \subseteq Cells
           /\ \A ship \in c.fleet : ship # {} /\ ship \subseteq Cells
<1>1. c.fleet \in Fleets BY DEF Captains
<1>2. /\ c.fleet \in SUBSET SUBSET Cells /\ {} \notin c.fleet
  BY <1>1, DuelAssumption
<1> QED BY <1>1, <1>2

LEMMA KnowsSame ==
    ASSUME NEW a, NEW b, NEW a2, NEW b2, NEW untold, a2.chart = a.chart, SameBoard(b, b2),
           Knows(a, b, untold)
    PROVE  Knows(a2, b2, untold)
<1>1. Resolved(b2) = Resolved(b) BY DEF Resolved, SameBoard
<1>2. \A x : OwnCell(b2, x) = "sunk" <=> OwnCell(b, x) = "sunk"
  BY SunkIs DEF SameBoard
<1> QED BY <1>1, <1>2 DEF Knows, SameBoard

LEMMA SettledSame ==
    ASSUME NEW a, NEW b, NEW a2, NEW b2, SameChart(a, a2), SameBoard(b, b2), Settled(a, b)
    PROVE  Settled(a2, b2)
<1>1. Resolved(b2) = Resolved(b) BY DEF Resolved, SameBoard
<1>2. a2.chart = a.chart BY DEF SameChart
<1>3. Knows(a2, b2, {}) BY <1>2, KnowsSame DEF Settled
<1> QED BY <1>1, <1>3 DEF Settled, SameChart

LEMMA AnsweredSame ==
    ASSUME NEW a, NEW b, NEW a2, NEW b2, NEW r, SameChart(a, a2), SameBoard(b, b2),
           b2.over = b.over, Answered(a, b, r)
    PROVE  Answered(a2, b2, r)
<1>1. Resolved(b2) = Resolved(b) BY DEF Resolved, SameBoard
<1>2. a2.chart = a.chart BY DEF SameChart
<1>3. Knows(a2, b2, {r.cell}) BY <1>2, KnowsSame DEF Answered
<1>4. OwnCell(b2, r.cell) = "sunk" <=> OwnCell(b, r.cell) = "sunk"
  BY SunkIs DEF SameBoard
<1> QED BY <1>1, <1>3, <1>4 DEF Answered, SameChart, SameBoard

LEMMA AimingSame ==
    ASSUME NEW a, NEW b, NEW a2, NEW b2, NEW id, NEW x, SameChart(a, a2), SameBoard(b, b2),
           Aiming(a, b, id, x)
    PROVE  Aiming(a2, b2, id, x)
<1>1. Resolved(b2) = Resolved(b) BY DEF Resolved, SameBoard
<1>2. a2.chart = a.chart BY DEF SameChart
<1>3. Knows(a2, b2, {}) BY <1>2, KnowsSame DEF Aiming
<1> QED BY <1>1, <1>3 DEF Aiming, SameChart

LEMMA SoundSame ==
    ASSUME NEW c, NEW d, SameBoard(c, d), SameEnd(c, d), Sound(c)
    PROVE  Sound(d)
<1>1. AllShipsSunk(d) <=> AllShipsSunk(c) BY DEF AllShipsSunk, Sinks, SameBoard
<1> QED BY <1>1 DEF Sound, SameBoard, SameEnd

\* The defender takes the shot
LEMMA TakenIs ==
    ASSUME NEW a \in Captains, NEW b \in Captains, NEW t \in Tasks,
           Aiming(a, b, t.id, t.cell), Sound(b), ~b.over, ~b.won,
           NEW d, d = ReceiveShot(b, t.cell), NEW r, r = Reply(t, d)
    PROVE  /\ d \in Captains /\ t.cell \in Cells /\ t.cell \notin Resolved(b)
           /\ Resolved(d) = Resolved(b) \cup {t.cell}
           /\ Cardinality(Resolved(d)) = Cardinality(Resolved(b)) + 1
           /\ SameChart(b, d) /\ d.fleet = b.fleet /\ d.linked = b.linked
           /\ ~d.won /\ Sound(d) /\ Answered(a, d, r) /\ r \in Volleys
<1>1. t.cell \in Cells BY DEF Tasks
<1>2. /\ d \in Captains
      /\ d.hit = IF t.cell \in UNION b.fleet THEN b.hit \cup {t.cell} ELSE b.hit
      /\ d.miss = IF t.cell \in UNION b.fleet THEN b.miss ELSE b.miss \cup {t.cell}
      /\ d.over <=> AllShipsSunk(d)
      /\ d.won <=> b.won /\ ~AllShipsSunk(d)
      /\ d.linked = b.linked /\ d.fleet = b.fleet
      /\ d.chart = b.chart /\ d.fired = b.fired /\ d.pending = b.pending
  <2>1. PICK x \in Cells : x = t.cell BY <1>1
  <2>2. d = ReceiveShot(b, x) BY <2>1
  <2>3. Received(b, x, d) BY <2>2, ReceiveIs
  <2> QED BY <2>1, <2>3 DEF Received
<1>3. t.cell \notin Resolved(b) BY <1>1 DEF Aiming, Knows
<1>4. Resolved(d) = Resolved(b) \cup {t.cell} BY <1>2 DEF Resolved
<1>5. Cardinality(Resolved(d)) = Cardinality(Resolved(b)) + 1
  BY <1>3, <1>4, ResolvedIs, FS_AddElement
<1>6. Sound(d)
  BY <1>2 DEF Sound
<1>7. /\ r \in Volleys /\ r.stage = "reply" /\ r.id = t.id /\ r.cell = t.cell
      /\ r.hit <=> t.cell \in d.hit
      /\ r.over = d.over
      /\ r.sunk <=> (\E ship \in d.fleet : t.cell \in ship /\ Sinks(d, ship))
  BY <1>2, ReplyIs
<1>8. Knows(a, d, {t.cell})
  <2>1. \A x : OwnCell(b, x) = "sunk" => OwnCell(d, x) = "sunk"
    BY <1>2, SunkIs
  <2>2. Knows(a, b, {}) BY DEF Aiming
  <2> QED BY <1>2, <1>3, <1>4, <2>1, <2>2 DEF Knows
<1>9. r.sunk => OwnCell(d, t.cell) = "sunk" BY <1>7, SunkIs DEF Sinks
<1>10. Answered(a, d, r)
  BY <1>4, <1>5, <1>7, <1>8, <1>9 DEF Aiming, Answered
<1> QED BY <1>1, <1>2, <1>3, <1>4, <1>5, <1>6, <1>7, <1>10 DEF SameChart

\* The shooter hears of it
LEMMA HeardIs ==
    ASSUME NEW a \in Captains, NEW b \in Captains, NEW v \in Volleys,
           Answered(a, b, v), Sound(a), ~a.over, ~a.won,
           NEW d, d = ObserveOutcome(a, v)
    PROVE  /\ d \in Captains /\ Settled(d, b) /\ SameBoard(a, d) /\ Sound(d)
           /\ d.over = v.over /\ d.won = v.over /\ d.linked = a.linked
<1>1. /\ d \in Captains
      /\ d.pending = NoShot
      /\ d.chart = [a.chart EXCEPT ![v.cell] =
                      IF v.hit THEN (IF v.sunk THEN "sunk" ELSE "hit") ELSE "miss"]
      /\ d.over = (a.over \/ v.over) /\ d.won = (a.won \/ v.over)
      /\ d.linked = a.linked /\ d.fleet = a.fleet
      /\ d.hit = a.hit /\ d.miss = a.miss /\ d.fired = a.fired
  <2>1. Informed(a, v, d) BY ObserveIs
  <2> QED BY <2>1 DEF Informed
<1>2. v.over \in BOOLEAN /\ v.cell \in Cells /\ a.chart \in [Cells -> Marks]
  BY DEF Volleys, Captains
<1>3. d.over = v.over /\ d.won = v.over BY <1>1, <1>2
<1>4. Knows(d, b, {})
  <2>1. ASSUME NEW x \in Cells, x # v.cell
        PROVE  /\ d.chart[x] # "unknown" <=> x \in Resolved(b)
               /\ d.chart[x] = "miss" => x \in b.miss
               /\ d.chart[x] = "hit" => x \in b.hit
               /\ d.chart[x] = "sunk" => OwnCell(b, x) = "sunk"
    <3>1. d.chart[x] = a.chart[x] BY <1>1, <1>2, <2>1
    <3> QED BY <2>1, <3>1 DEF Answered, Knows
  <2>2. /\ d.chart[v.cell] # "unknown" /\ v.cell \in Resolved(b)
        /\ d.chart[v.cell] = "miss" => v.cell \in b.miss
        /\ d.chart[v.cell] = "hit" => v.cell \in b.hit
        /\ d.chart[v.cell] = "sunk" => OwnCell(b, v.cell) = "sunk"
    <3>1. d.chart[v.cell] = IF v.hit THEN (IF v.sunk THEN "sunk" ELSE "hit") ELSE "miss"
      BY <1>1, <1>2
    <3> QED BY <3>1 DEF Answered, Resolved
  <2> QED BY <2>1, <2>2 DEF Knows
<1>5. Sound(d)
  <2>1. AllShipsSunk(d) <=> AllShipsSunk(a) BY <1>1 DEF AllShipsSunk, Sinks
  <2>2. ~AllShipsSunk(a) BY DEF Sound
  <2> QED BY <1>1, <1>3, <2>1, <2>2 DEF Sound
<1> QED BY <1>1, <1>3, <1>4, <1>5 DEF Settled, Answered, SameBoard

\* A captain that plays on has a cell left to shoot at
LEMMA CellsLeft ==
    ASSUME NEW a \in Captains, NEW b \in Captains, Settled(a, b), Sound(b), ~b.over
    PROVE  Unknown(a) # {}
<1>1. PICK ship \in b.fleet : ~(ship \subseteq b.hit) BY DEF Sound, AllShipsSunk, Sinks
<1>2. PICK x \in ship : x \notin b.hit BY <1>1
<1>3. x \in Cells BY <1>1, ShipsAre
<1>4. x \notin Resolved(b) BY <1>1, <1>2 DEF Sound, Resolved
<1> QED BY <1>3, <1>4 DEF Settled, Knows, Unknown

\* ... and aims at it
LEMMA AimIs ==
    ASSUME NEW a \in Captains, NEW b \in Captains, Settled(a, b), NEW x \in Unknown(a),
           NEW d, d = PlanNextShot(a, x)
    PROVE  /\ d \in Captains /\ Aiming(d, b, a.fired + 1, x)
           /\ SameBoard(a, d) /\ SameEnd(a, d) /\ d.linked = a.linked
<1>1. x \in Cells /\ a.chart[x] = "unknown" /\ a.fired \in Nat BY DEF Unknown, Captains
<1>a. Planned(a, x, d) BY <1>1, PlanIs
<1>2. /\ d \in Captains
      /\ d.pending = [id |-> a.fired + 1, cell |-> x] /\ d.fired = a.fired + 1
      /\ d.linked = a.linked /\ d.over = a.over /\ d.won = a.won
      /\ d.fleet = a.fleet /\ d.hit = a.hit /\ d.miss = a.miss /\ d.chart = a.chart
  BY <1>a DEF Planned
<1>3. SameBoard(b, b) BY DEF SameBoard
<1>4. Knows(d, b, {}) BY <1>2, <1>3, KnowsSame DEF Settled
<1> QED BY <1>1, <1>2, <1>4 DEF Aiming, Settled, SameBoard, SameEnd

\* Before the duel
LEMMA FreshIs ==
    ASSUME NEW a \in Captains, NEW b \in Captains, Fresh(a), Fresh(b)
    PROVE  /\ Settled(a, b) /\ Resolved(a) = {} /\ Cardinality(Resolved(a)) = 0
           /\ a.fleet # {} => Sound(a)
<1>1. Resolved(a) = {} /\ Resolved(b) = {} BY DEF Fresh, Resolved
<1>2. Cardinality({}) = 0 BY FS_EmptySet
<1>3. Knows(a, b, {}) BY <1>1 DEF Fresh, Knows
<1>4. ASSUME a.fleet # {} PROVE Sound(a)
  <2>1. PICK ship \in a.fleet : ship # {} BY <1>4, ShipsAre
  <2>2. ~AllShipsSunk(a) BY <2>1 DEF AllShipsSunk, Sinks, Fresh
  <2> QED BY <1>4, <2>2 DEF Sound, Fresh
<1> QED BY <1>1, <1>2, <1>3, <1>4 DEF Settled, Fresh

-----------------------------------------------------------------------------
(* What the steps of a processing thread do *)

\* All of a captain but whether it has started
Alike(c, d) == SameBoard(c, d) /\ SameChart(c, d) /\ SameEnd(c, d)
                 /\ d.live = c.live /\ d.linked = c.linked

LEMMA Sides ==
    \A s \in Side : /\ Other(s) \in Side /\ Other(s) # s /\ Other(Other(s)) = s
                    /\ Side = {s, Other(s)}
BY DEF Side, Other

LEMMA TypesAre ==
    ASSUME TypeOK, NEW s \in Side
    PROVE  /\ captain[s] \in Captains /\ mail[s] \in Seq(Volleys) /\ Len(mail[s]) \in Nat
           /\ task[s] \subseteq Tasks
           /\ captain \in [Side -> Captains] /\ mail \in [Side -> Seq(Volleys)]
           /\ task \in [Side -> SUBSET Tasks]
<1>1. mail[s] \in Seq(Volleys) BY DEF TypeOK
<1> QED BY <1>1 DEF TypeOK

LEMMA HearFireIs ==
    ASSUME TypeOK, NEW s \in Side, HearFire(s)
    PROVE  LET o == Other(s) box == mail[o] IN
           /\ box # <<>> /\ box[1].stage = "fire" /\ box[1] \in Volleys
           /\ mail' = [mail EXCEPT ![o] = Tail(box)]
           /\ captain'[o] = captain[o] /\ Alike(captain[s], captain'[s])
           /\ captain[s].over => task' = task
           /\ ~captain[s].over =>
                \E t \in Tasks :
                  /\ t.does = "receive" /\ t.id = box[1].id /\ t.cell = box[1].cell
                  /\ t.trigger = "fire" /\ task' = [task EXCEPT ![s] = task[s] \cup {t}]
           /\ UNCHANGED <<mainVars, logVars, alive, cast>>
<1> DEFINE box == mail[Other(s)]
<1>1. Other(s) \in Side /\ Other(s) # s BY Sides
<1>2. box \in Seq(Volleys) /\ box # <<>> /\ Head(box).stage = "fire"
  BY <1>1, TypesAre DEF HearFire
<1>3. Head(box) = box[1] /\ box[1] \in Volleys BY <1>2
<1>4. mail' = [mail EXCEPT ![Other(s)] = Tail(box)] BY <1>1, TypesAre DEF HearFire
<1>5. UNCHANGED <<mainVars, logVars, alive, cast>> BY DEF HearFire
<1>6. CASE captain[s].over
  <2>1. captain' = captain /\ task' = task BY <1>6 DEF HearFire
  <2> QED
    BY <1>2, <1>3, <1>4, <1>5, <1>6, <2>1 DEF Alike, SameBoard, SameChart, SameEnd
<1>7. CASE ~captain[s].over
  <2>1. PICK c \in Captains : c = captain[s] BY TypesAre
  <2> DEFINE d == [c EXCEPT !.started = TRUE]
  <2>2. captain' = [captain EXCEPT ![s] = d] BY <1>7, <2>1, TypesAre DEF HearFire
  <2>3. d \in Captains /\ Alike(c, d)
    BY DEF Captains, Alike, SameBoard, SameChart, SameEnd
  <2>4. PICK t \in Tasks : t = [does |-> "receive", id |-> box[1].id, cell |-> box[1].cell,
                                trigger |-> "fire"]
    <3>1. box[1].id \in Nat /\ box[1].cell \in Cells BY <1>3 DEF Volleys
    <3> QED BY <3>1 DEF Tasks
  <2>5. task' = [task EXCEPT ![s] = task[s] \cup {t}] BY <1>3, <1>7, <2>4 DEF HearFire
  <2>6. t.does = "receive" /\ t.id = box[1].id /\ t.cell = box[1].cell /\ t.trigger = "fire"
    BY <2>4
  <2> HIDE DEF d
  <2>7. captain'[s] = d /\ captain'[Other(s)] = captain[Other(s)] BY <1>1, <2>2, TypesAre
  <2> QED BY <1>2, <1>3, <1>4, <1>5, <1>7, <2>1, <2>3, <2>5, <2>6, <2>7
<1> QED BY <1>6, <1>7

LEMMA HearReplyIs ==
    ASSUME TypeOK, NEW s \in Side, HearReply(s)
    PROVE  LET o == Other(s) box == mail[o] c == captain[s] v == box[1] IN
           /\ box # <<>> /\ v.stage = "reply" /\ v \in Volleys
           /\ mail' = [mail EXCEPT ![o] = Tail(box)]
           /\ captain'[o] = captain[o]
           /\ captain'[s] = IF ~c.over /\ c.pending = [id |-> v.id, cell |-> v.cell]
                              THEN ObserveOutcome(c, v) ELSE c
           /\ UNCHANGED <<mainVars, logVars, alive, task, cast>>
<1> DEFINE box == mail[Other(s)]
<1>1. Other(s) \in Side /\ Other(s) # s BY Sides
<1>2. box \in Seq(Volleys) /\ box # <<>> /\ Head(box).stage = "reply"
  BY <1>1, TypesAre DEF HearReply
<1>3. Head(box) = box[1] /\ box[1] \in Volleys BY <1>2
<1>4. mail' = [mail EXCEPT ![Other(s)] = Tail(box)] BY <1>1, TypesAre DEF HearReply
<1>5. UNCHANGED <<mainVars, logVars, alive, task, cast>> BY DEF HearReply
<1>6. PICK v : v = box[1] OBVIOUS
<1>7. captain' = [captain EXCEPT ![s] =
                    IF ~captain[s].over /\ captain[s].pending = [id |-> v.id, cell |-> v.cell]
                      THEN ObserveOutcome(captain[s], v) ELSE captain[s]]
  BY <1>3, <1>6, TypesAre DEF HearReply
<1>8. /\ captain'[s] = IF ~captain[s].over /\ captain[s].pending = [id |-> v.id, cell |-> v.cell]
                         THEN ObserveOutcome(captain[s], v) ELSE captain[s]
      /\ captain'[Other(s)] = captain[Other(s)]
  BY <1>1, <1>7, TypesAre
<1> QED BY <1>2, <1>3, <1>4, <1>5, <1>6, <1>8

LEMMA RefuseShotIs ==
    ASSUME TypeOK, NEW s \in Side, RefuseShot(s)
    PROVE  /\ \E t \in task[s] :
                /\ t.does = "receive" /\ t \in Tasks
                /\ ~Playing(captain[s]) \/ t.cell \in Resolved(captain[s])
                /\ task' = [task EXCEPT ![s] = task[s] \ {t}]
           /\ UNCHANGED <<mainVars, logVars, alive, captain, mail, cast>>
BY TypesAre DEF RefuseShot

\* The captain s is shot at and turns into d
Shot(s, t, d) ==
    /\ t \in task[s] /\ t \in Tasks /\ t.does = "receive"
    /\ Playing(captain[s]) /\ t.cell \notin Resolved(captain[s])
    /\ d = ReceiveShot(captain[s], t.cell) /\ Received(captain[s], t.cell, d)
    /\ mail'[Other(s)] = mail[Other(s)]
    /\ mail'[s] = IF captain[Other(s)].linked THEN Append(mail[s], Reply(t, d)) ELSE mail[s]
    /\ captain'[Other(s)] = captain[Other(s)] /\ task'[Other(s)] = task[Other(s)]

\* It does not shoot back, or it does
Stays(s, t, d) == captain'[s] = d /\ task'[s] = task[s] \ {t}
Counters(s, t, d) ==
    \E x \in Unknown(d) : \E u \in Tasks :
      /\ captain'[s] = PlanNextShot(d, x)
      /\ u.does = "launch" /\ u.id = d.fired + 1 /\ u.cell = x /\ u.trigger = "counter"
      /\ task'[s] = (task[s] \ {t}) \cup {u}

LEMMA TakeShotIs ==
    ASSUME TypeOK, NEW s \in Side, TakeShot(s)
    PROVE  /\ \E t, d :
                /\ Shot(s, t, d)
                /\ \/ /\ d.over \/ ~Playing(d) \/ d.pending # NoShot \/ Unknown(d) = {}
                      /\ Stays(s, t, d)
                   \/ ~d.over /\ Counters(s, t, d)
           /\ UNCHANGED <<mainVars, logVars, alive, cast>>
<1>0. Other(s) \in Side /\ Other(s) # s BY Sides
<1>1. PICK t \in task[s] : LET d == ReceiveShot(captain[s], t.cell) IN
        /\ t.does = "receive"
        /\ Playing(captain[s]) /\ t.cell \notin Resolved(captain[s])
        /\ EmitVolley(s, Reply(t, d))
        /\ \E next \in IF d.over THEN {[captain |-> d, says |-> 0, sleeps |-> {}]}
                                 ELSE FireNextVolley(d, "counter") :
             /\ captain' = [captain EXCEPT ![s] = next.captain]
             /\ task' = [task EXCEPT ![s] = (@ \ {t}) \cup next.sleeps]
  BY DEF TakeShot
<1>2. t \in Tasks /\ t.cell \in Cells /\ captain[s] \in Captains BY TypesAre DEF Tasks
<1>3. PICK c \in Captains, x \in Cells : c = captain[s] /\ x = t.cell BY <1>2
<1>4. PICK d : d = ReceiveShot(c, x) OBVIOUS
<1>5. Received(c, x, d) BY <1>4, ReceiveIs
<1>6. d \in Captains /\ d = ReceiveShot(captain[s], t.cell) BY <1>3, <1>4, <1>5 DEF Received
<1>7. PICK r \in Volleys : r = Reply(t, d) BY <1>2, <1>6, ReplyIs
<1>8. PICK next \in IF d.over THEN {[captain |-> d, says |-> 0, sleeps |-> {}]}
                              ELSE FireNextVolley(d, "counter") :
             /\ captain' = [captain EXCEPT ![s] = next.captain]
             /\ task' = [task EXCEPT ![s] = (@ \ {t}) \cup next.sleeps]
  BY <1>1, <1>6
<1>9. /\ mail'[Other(s)] = mail[Other(s)]
      /\ mail'[s] = IF captain[Other(s)].linked THEN Append(mail[s], Reply(t, d)) ELSE mail[s]
  BY <1>1, <1>6, <1>7, EmitIs
<1>10. /\ captain'[s] = next.captain /\ captain'[Other(s)] = captain[Other(s)]
       /\ task'[s] = (task[s] \ {t}) \cup next.sleeps /\ task'[Other(s)] = task[Other(s)]
  BY <1>0, <1>8, TypesAre
<1>11. Shot(s, t, d)
  BY <1>1, <1>2, <1>3, <1>4, <1>5, <1>9, <1>10 DEF Shot
<1>12. CASE d.over
  <2>1. next = [captain |-> d, says |-> 0, sleeps |-> {}] BY <1>8, <1>12
  <2>2. Stays(s, t, d) BY <1>10, <2>1 DEF Stays
  <2> QED BY <1>11, <1>12, <2>2 DEF TakeShot
<1>13. CASE ~d.over
  <2>1. next \in FireNextVolley(d, "counter") BY <1>8, <1>13
  <2>2. CASE Playing(d) /\ d.pending = NoShot /\ Unknown(d) # {}
    <3>1. PICK y \in Unknown(d) :
            /\ next.captain = PlanNextShot(d, y)
            /\ next.sleeps = {[does |-> "launch", id |-> d.fired + 1, cell |-> y,
                               trigger |-> "counter"]}
            /\ next.sleeps \subseteq Tasks
      BY <1>6, <2>1, <2>2, FireNextIs
    <3>2. PICK u \in Tasks : u = [does |-> "launch", id |-> d.fired + 1, cell |-> y,
                                  trigger |-> "counter"]
      BY <3>1
    <3>3. Counters(s, t, d) BY <1>10, <3>1, <3>2 DEF Counters
    <3> QED BY <1>11, <1>13, <3>3 DEF TakeShot
  <2>3. CASE ~(Playing(d) /\ d.pending = NoShot /\ Unknown(d) # {})
    <3>1. next.captain = d /\ next.sleeps = {} BY <1>6, <2>1, <2>3, FireNextIs
    <3>2. Stays(s, t, d) BY <1>10, <3>1 DEF Stays
    <3> QED BY <1>11, <2>3, <3>2 DEF TakeShot
  <2> QED BY <2>2, <2>3
<1> QED BY <1>12, <1>13

LEMMA LaunchIs ==
    ASSUME TypeOK, NEW s \in Side, Launch(s)
    PROVE  /\ \E t \in task[s] :
                /\ t \in Tasks /\ t.does = "launch"
                /\ task' = [task EXCEPT ![s] = task[s] \ {t}]
                /\ mail'[Other(s)] = mail[Other(s)]
                /\ mail'[s] = IF captain[Other(s)].linked THEN Append(mail[s], Fire(t))
                                                          ELSE mail[s]
                /\ main' = IF t.trigger = "opening" THEN "started" ELSE main
           /\ UNCHANGED <<line, starter, banner, view, screen, raw, logVars, alive, captain, cast>>
<1>1. PICK t \in task[s] :
        /\ t.does = "launch" /\ EmitVolley(s, Fire(t))
        /\ task' = [task EXCEPT ![s] = @ \ {t}]
        /\ main' = IF t.trigger = "opening" THEN "started" ELSE main
  BY DEF Launch
<1>2. t \in Tasks BY TypesAre
<1>3. PICK v \in Volleys : v = Fire(t) BY <1>2, FireIs
<1>4. /\ mail'[Other(s)] = mail[Other(s)]
      /\ mail'[s] = IF captain[Other(s)].linked THEN Append(mail[s], Fire(t)) ELSE mail[s]
  BY <1>1, <1>3, EmitIs
<1> QED BY <1>1, <1>2, <1>4 DEF Launch

-----------------------------------------------------------------------------
(* The invariant *)

\* Before the duel nothing is under way and the captains are as main() made them so far
AtSetUp ==
    main = "setup" =>
      /\ line \in 0 .. 10
      /\ \A s \in Side :
           /\ task[s] = {} /\ mail[s] = <<>> /\ Fresh(captain[s])
           /\ captain[s].linked <=> line >= (IF s = "red" THEN 9 ELSE 10)
           /\ line <= (IF s = "red" THEN 6 ELSE 7) => captain[s].fleet = {}

LinkedIsReady == \A s \in Side : captain[s].linked => captain[s].live /\ captain[s].fleet # {}

\* From the opening shot to the destructors
Dueling == {"starting", "started", "key", "viewRed", "viewBlue", "readLast", "draw",
            "finalRed", "finalBlue", "drawFinal", "cleanUp", "offRed", "offBlue"}

\* The captains are linked until they are shut down, blue first
WhereLinked ==
    /\ main \in Dueling => Linked
    /\ main = "destroyBlue" => Linked \/ \A s \in Side : ~captain[s].linked
    /\ main \in {"joinBlue", "destroyRed"} => ~captain["blue"].linked
    /\ main \in {"joinRed", "destroyLog", "done"} => \A s \in Side : ~captain[s].linked

\* main() waits for the opening volley
Opens == \A s \in Side : \A t \in task[s] : t.trigger = "opening" => main = "starting"

SetUpInv == AtSetUp /\ LinkedIsReady /\ WhereLinked /\ Opens

\* The destructors join the threads before the log goes
Threads ==
    /\ main \in {"destroyRed", "joinRed", "destroyLog", "done"} => ~alive["blue"] /\ ~cast["blue"]
    /\ main \in {"destroyLog", "done"} => ~alive["red"] /\ ~cast["red"]
    /\ ~logAlive => main = "done"

\* Neither has lost, and it is for s to shoot
Due(s) ==
    /\ \A p \in Side : ~captain[p].over /\ ~captain[p].won
    /\ Cardinality(Resolved(captain[s]))
         = Cardinality(Resolved(captain[Other(s)])) + IF s = starter THEN 0 ELSE 1

\* s owes at most a reply
Told(s) == \/ mail[s] = <<>> /\ Settled(captain[Other(s)], captain[s])
           \/ Len(mail[s]) = 1 /\ Answered(captain[Other(s)], captain[s], mail[s][1])

\* The turn is with s, which sleeps before its volley
Launching(s) ==
    /\ Due(s) /\ Told(s) /\ mail[Other(s)] = <<>> /\ task[Other(s)] = {}
    /\ \E t \in task[s] :
         /\ task[s] = {t} /\ t.does = "launch"
         /\ t.trigger = "opening" <=> main = "starting"
         /\ Aiming(captain[s], captain[Other(s)], t.id, t.cell)

\* ... or its volley is on the way
Flying(s) ==
    /\ Due(s) /\ main # "starting"
    /\ mail[Other(s)] = <<>> /\ \A p \in Side : task[p] = {}
    /\ \/ Len(mail[s]) = 1 /\ Settled(captain[Other(s)], captain[s])
       \/ Len(mail[s]) = 2 /\ Answered(captain[Other(s)], captain[s], mail[s][1])
    /\ LET f == mail[s][Len(mail[s])]
       IN f.stage = "fire" /\ Aiming(captain[s], captain[Other(s)], f.id, f.cell)

\* ... or it was heard, and the other sleeps before it takes it
Landing(s) ==
    /\ Due(s) /\ main # "starting"
    /\ \A p \in Side : mail[p] = <<>>
    /\ task[s] = {} /\ Settled(captain[Other(s)], captain[s])
    /\ \E t \in task[Other(s)] :
         /\ task[Other(s)] = {t} /\ t.does = "receive"
         /\ Aiming(captain[s], captain[Other(s)], t.id, t.cell)

\* s has lost its last ship, and the other knows or will be told
Beaten(s) ==
    LET c == captain[s] o == captain[Other(s)] IN
      /\ main # "starting" /\ mail[Other(s)] = <<>> /\ \A p \in Side : task[p] = {}
      /\ Settled(c, o) /\ c.over /\ ~c.won
      /\ \/ Len(mail[s]) = 1 /\ Answered(o, c, mail[s][1]) /\ ~o.over /\ ~o.won
         \/ mail[s] = <<>> /\ Settled(o, c) /\ o.over /\ o.won

Shape(s) == Launching(s) \/ Flying(s) \/ Landing(s) \/ Beaten(s)
Duel == Linked /\ main # "setup" =>
          (\A s \in Side : Sound(captain[s])) /\ (\E s \in Side : Shape(s))

\* When blue is shut down it may have a shot left: asleep, on its way, or landing on red
LeftAsleep == {t \in task["blue"] : t.does = "launch"}
LeftFlying == Stage("blue", "fire")
LeftLanding == {t \in task["red"] : t.does = "receive"}
OneLeft == \/ LeftFlying = {} /\ LeftLanding = {} /\ \E t \in LeftAsleep : LeftAsleep = {t}
           \/ LeftAsleep = {} /\ LeftLanding = {} /\ \E i \in LeftFlying : LeftFlying = {i}
           \/ LeftAsleep = {} /\ LeftFlying = {} /\ \E t \in LeftLanding : LeftLanding = {t}
Spent == LeftAsleep = {} /\ LeftFlying = {} /\ LeftLanding = {}
LastShot == /\ Due("blue") /\ OneLeft /\ \A s \in Side : Sound(captain[s])
            /\ \A i \in 1 .. Len(mail["blue"]) :
                 mail["blue"][i].stage = "reply" => ~mail["blue"][i].over
Adrift ==
    main \in {"joinBlue", "destroyRed"} /\ captain["red"].linked =>
      mail["red"] = <<>> /\ (Spent \/ LastShot)

Inv == TypeOK /\ SetUpInv /\ Threads /\ Duel /\ Adrift

LEMMA InvInit == Init => Inv
<1> SUFFICES ASSUME Init PROVE Inv
  OBVIOUS
<1>1. TypeOK BY TypesInit
<1>2. main = "setup" /\ line = 0 /\ logAlive = TRUE BY DEF Init
<1>3. \A s \in Side : /\ task[s] = {} /\ mail[s] = <<>> /\ captain[s] = NoCaptain
  BY DEF Init
<1>4. Fresh(NoCaptain) /\ ~NoCaptain.linked /\ NoCaptain.fleet = {}
  BY NewCaptainIs DEF Fresh
<1>5. AtSetUp BY <1>2, <1>3, <1>4 DEF AtSetUp
<1>6. LinkedIsReady BY <1>3, <1>4 DEF LinkedIsReady
<1>7. WhereLinked BY <1>2 DEF WhereLinked, Dueling
<1>8. Opens BY <1>3 DEF Opens
<1>9. Threads BY <1>2 DEF Threads
<1> QED BY <1>1, <1>2, <1>5, <1>6, <1>7, <1>8, <1>9 DEF Inv, SetUpInv, Duel, Adrift

\* A processing thread leaves alone what the set-up made
LEMMA ProcessingKeeps ==
    ASSUME TypeOK, NEW s \in Side, Processing(s)
    PROVE  /\ UNCHANGED <<line, starter, logVars, alive, cast, view, screen, banner>>
           /\ \A p \in Side : /\ captain'[p].live = captain[p].live
                              /\ captain'[p].linked = captain[p].linked
                              /\ captain'[p].fleet = captain[p].fleet
           /\ main' = main \/ (main' = "started" /\ Launch(s))
<1>0. Other(s) \in Side /\ Side = {s, Other(s)} /\ captain[s] \in Captains BY Sides, TypesAre
<1>1. CASE HearFire(s)
  BY <1>0, <1>1, HearFireIs DEF Alike, SameBoard
<1>2. CASE HearReply(s)
  <2>1. PICK v \in Volleys : v = mail[Other(s)][1] BY <1>2, HearReplyIs
  <2>2. PICK c \in Captains : c = captain[s] BY <1>0
  <2>3. PICK d : d = ObserveOutcome(c, v) OBVIOUS
  <2>4. d.live = c.live /\ d.linked = c.linked /\ d.fleet = c.fleet
    <3>1. Informed(c, v, d) BY <2>3, ObserveIs
    <3> QED BY <3>1 DEF Informed
  <2>5. captain'[s] \in {c, d} /\ captain'[Other(s)] = captain[Other(s)]
    BY <1>2, <2>1, <2>2, <2>3, HearReplyIs
  <2> QED BY <1>0, <1>2, <2>2, <2>4, <2>5, HearReplyIs
<1>3. CASE RefuseShot(s) BY <1>3, RefuseShotIs
<1>4. CASE TakeShot(s)
  <2>1. PICK t, d : /\ Shot(s, t, d)
                    /\ Stays(s, t, d) \/ Counters(s, t, d)
    BY <1>4, TakeShotIs
  <2>2. /\ d \in Captains /\ d.live = captain[s].live /\ d.linked = captain[s].linked
        /\ d.fleet = captain[s].fleet /\ captain'[Other(s)] = captain[Other(s)]
    BY <2>1 DEF Shot, Received
  <2>3. /\ captain'[s].live = d.live /\ captain'[s].linked = d.linked
        /\ captain'[s].fleet = d.fleet
    <3>1. CASE Stays(s, t, d) BY <3>1 DEF Stays
    <3>2. CASE Counters(s, t, d)
      <4>1. PICK x \in Cells : captain'[s] = PlanNextShot(d, x)
        BY <3>2 DEF Counters, Unknown
      <4> PICK e : e = PlanNextShot(d, x) OBVIOUS
      <4>2. d \in Captains BY <2>2
      <4>3. Planned(d, x, e) BY <4>2, PlanIs
      <4> QED BY <4>1, <4>3 DEF Planned
    <3> QED BY <2>1, <3>1, <3>2
  <2> QED BY <1>0, <1>4, <2>2, <2>3, TakeShotIs
<1>5. CASE Launch(s) BY <1>5, LaunchIs
<1> QED BY <1>1, <1>2, <1>3, <1>4, <1>5 DEF Processing

\* With nothing under way a processing thread has nothing to do
LEMMA ProcessingNeeds ==
    ASSUME TypeOK, NEW s \in Side, Processing(s)
    PROVE  task[s] # {} \/ mail[Other(s)] # <<>>
<1>1. CASE HearFire(s) BY <1>1, HearFireIs
<1>2. CASE HearReply(s) BY <1>2, HearReplyIs
<1>3. CASE RefuseShot(s) BY <1>3, RefuseShotIs
<1>4. CASE TakeShot(s) BY <1>4, TakeShotIs DEF Shot
<1>5. CASE Launch(s) BY <1>5, LaunchIs
<1> QED BY <1>1, <1>2, <1>3, <1>4, <1>5 DEF Processing

LEMMA NotInSetUp ==
    ASSUME TypeOK, AtSetUp, NEW s \in Side, Processing(s)
    PROVE  main # "setup"
BY ProcessingNeeds, Sides DEF AtSetUp

\* Who has what to do, during the duel
LEMMA WhoReceives ==
    ASSUME \E q \in Side : Shape(q), NEW s \in Side, NEW t \in task[s], t.does = "receive"
    PROVE  Landing(Other(s)) /\ task[s] = {t}
<1>1. PICK q \in Side : Shape(q) OBVIOUS
<1>2. Side = {q, Other(q)} /\ Other(Other(q)) = q BY Sides
<1> QED BY <1>1, <1>2 DEF Shape, Launching, Flying, Landing, Beaten

LEMMA WhoLaunches ==
    ASSUME \E q \in Side : Shape(q), NEW s \in Side, NEW t \in task[s], t.does = "launch"
    PROVE  Launching(s) /\ task[s] = {t}
<1>1. PICK q \in Side : Shape(q) OBVIOUS
<1>2. Side = {q, Other(q)} /\ Other(Other(q)) = q BY Sides
<1> QED BY <1>1, <1>2 DEF Shape, Launching, Flying, Landing, Beaten

LEMMA WhoMails ==
    ASSUME \E q \in Side : Shape(q), NEW s \in Side, mail[s] # <<>>
    PROVE  Launching(s) \/ Flying(s) \/ Beaten(s)
<1>1. PICK q \in Side : Shape(q) OBVIOUS
<1>2. Side = {q, Other(q)} /\ Other(Other(q)) = q BY Sides
<1> QED BY <1>1, <1>2 DEF Shape, Launching, Flying, Landing, Beaten

-----------------------------------------------------------------------------
(* The set-up and where main() is *)

\* What the script does to the captains: none of it is under way yet
LEMMA ScriptStep ==
    ASSUME TypeOK, AtSetUp, NEW s \in Side, SetUp(s)
    PROVE  /\ main = "setup" /\ line \in 0 .. 10 /\ line' = line + 1
           /\ captain'[Other(s)] = captain[Other(s)] /\ Fresh(captain[s])
           /\ UNCHANGED <<starter, mail, logAlive, view, screen>>
           /\ \/ /\ UNCHANGED <<main, task, captain>>
                 /\ line \notin {6, 7, 8, 9, 10}
              \/ /\ UNCHANGED <<main, task>> /\ Here(s, 4)
                 /\ captain'[s] = NewCaptain
              \/ /\ UNCHANGED <<main, task>> /\ Here(s, 6)
                 /\ \E f \in Fleets : captain'[s] = [captain[s] EXCEPT !.fleet = f]
              \/ /\ UNCHANGED <<main, task>> /\ Here(s, 8)
                 /\ captain[s].live /\ captain[s].fleet # {}
                 /\ captain'[s] = [Unlinked(captain[s]) EXCEPT !.linked = TRUE]
              \/ StartGame(s) /\ line = 10 /\ main' = "starting" /\ s = starter
<1>0. /\ line \in 0 .. 11 /\ Other(s) \in Side /\ Other(s) # s
      /\ captain \in [Side -> Captains]
  BY Sides, TypesAre, ScriptIs DEF TypeOK
<1>1. \A what : At(what, s) => main = "setup" BY DEF At
<1>2. main = "setup"
  BY <1>1 DEF SetUp, CreateContext, RegisterCallbacks, InitializeCaptain, AutoPlaceFleet,
              LinkOpponent, StartGame
<1>3. line \in 0 .. 10 /\ Fresh(captain[s]) BY <1>2 DEF AtSetUp
<1>4. CASE CreateContext(s)
  <2>1. Here(s, 0) BY <1>0, <1>4, AtLine DEF CreateContext
  <2> QED BY <1>2, <1>3, <1>4, <2>1 DEF CreateContext, Advance, Here
<1>5. CASE RegisterCallbacks(s)
  <2>1. Here(s, 2) BY <1>0, <1>5, AtLine DEF RegisterCallbacks
  <2> QED BY <1>2, <1>3, <1>5, <2>1 DEF RegisterCallbacks, Advance, Here
<1>6. CASE InitializeCaptain(s)
  <2>1. Here(s, 4) BY <1>0, <1>6, AtLine DEF InitializeCaptain
  <2>2. captain'[s] = NewCaptain /\ captain'[Other(s)] = captain[Other(s)]
    BY <1>0, <1>6 DEF InitializeCaptain
  <2> QED BY <1>2, <1>3, <1>6, <2>1, <2>2 DEF InitializeCaptain, Advance
<1>7. CASE AutoPlaceFleet(s)
  <2>1. Here(s, 6) BY <1>0, <1>7, AtLine DEF AutoPlaceFleet
  <2>2. PICK f \in Fleets : captain' = [captain EXCEPT ![s].fleet = f]
    BY <1>7 DEF AutoPlaceFleet
  <2>3. /\ captain'[s] = [captain[s] EXCEPT !.fleet = f]
        /\ captain'[Other(s)] = captain[Other(s)]
    BY <1>0, <2>2
  <2> QED BY <1>2, <1>3, <1>7, <2>1, <2>3 DEF AutoPlaceFleet, Advance
<1>8. CASE LinkOpponent(s)
  <2>1. Here(s, 8) BY <1>0, <1>8, AtLine DEF LinkOpponent
  <2>2. PICK d : d = [Unlinked(captain[s]) EXCEPT !.linked = TRUE] OBVIOUS
  <2>3. captain' = [captain EXCEPT ![s] = d] BY <1>0, <1>8, <2>2 DEF LinkOpponent
  <2>4. captain'[s] = d /\ captain'[Other(s)] = captain[Other(s)] BY <1>0, <2>3
  <2> QED BY <1>2, <1>3, <1>8, <2>1, <2>2, <2>4 DEF LinkOpponent, Advance
<1>9. CASE StartGame(s)
  <2>1. line = 10 /\ s = starter BY <1>0, <1>9, AtLine DEF StartGame
  <2>2. captain'[Other(s)] = captain[Other(s)] BY <1>0, <1>9 DEF StartGame
  <2> QED BY <1>2, <1>3, <1>9, <2>1, <2>2 DEF StartGame
<1> QED BY <1>4, <1>5, <1>6, <1>7, <1>8, <1>9 DEF SetUp

LEMMA FreshStays ==
    ASSUME NEW c \in Captains, Fresh(c), NEW d,
           \/ d = NewCaptain
           \/ \E f \in Fleets : d = [c EXCEPT !.fleet = f]
           \/ d = [Unlinked(c) EXCEPT !.linked = TRUE]
    PROVE  Fresh(d)
<1>1. CASE d = NewCaptain BY <1>1, NewCaptainIs DEF Fresh
<1>2. CASE \E f \in Fleets : d = [c EXCEPT !.fleet = f] BY <1>2 DEF Fresh, Captains
<1>3. CASE d = [Unlinked(c) EXCEPT !.linked = TRUE]
  <2>1. PICK u \in Captains : u = Unlinked(c) BY UnlinkedIs
  <2>2. /\ u.hit = c.hit /\ u.miss = c.miss /\ u.chart = c.chart /\ u.fired = c.fired
        /\ u.pending = NoShot /\ ~u.over /\ ~u.won
    BY <2>1, UnlinkedIs
  <2> DEFINE e == [u EXCEPT !.linked = TRUE]
  <2>3. /\ e.hit = u.hit /\ e.miss = u.miss /\ e.chart = u.chart /\ e.fired = u.fired
        /\ e.pending = u.pending /\ e.over = u.over /\ e.won = u.won
    BY DEF Captains
  <2>4. d = e BY <1>3, <2>1
  <2> HIDE DEF e
  <2> QED BY <2>2, <2>3, <2>4 DEF Fresh
<1> QED BY <1>1, <1>2, <1>3

\* The start: the captain that opens plans its first shot
Opening(s) ==
    \E x \in Unknown(captain[s]) : \E u \in Tasks :
      /\ captain'[s] = PlanNextShot(captain[s], x)
      /\ u.does = "launch" /\ u.id = captain[s].fired + 1 /\ u.cell = x
      /\ u.trigger = "opening"
      /\ task' = [task EXCEPT ![s] = task[s] \cup {u}]

LEMMA StartGameIs ==
    ASSUME TypeOK, AtSetUp, NEW s \in Side, StartGame(s)
    PROVE  /\ \A p \in Side : captain[p].linked /\ Fresh(captain[p])
           /\ captain[s].fleet # {} /\ Opening(s)
<1>0. line \in 0 .. 11 /\ captain[s] \in Captains /\ captain \in [Side -> Captains]
  BY TypesAre, ScriptIs DEF TypeOK
<1>1. main = "setup" /\ line = 10 BY <1>0, AtLine DEF StartGame
<1>2. \A p \in Side : captain[p].linked /\ Fresh(captain[p]) BY <1>1 DEF AtSetUp
<1>3. Playing(captain[s]) /\ captain[s].fleet # {} BY DEF StartGame, Playing
<1>4. captain[s].pending = NoShot /\ Unknown(captain[s]) = Cells
  BY <1>2 DEF Fresh, Unknown
<1>5. Unknown(captain[s]) # {} BY <1>4, DuelAssumption
<1>6. PICK next \in FireNextVolley(captain[s], "opening") :
        /\ captain' = [captain EXCEPT ![s] = next.captain]
        /\ task' = [task EXCEPT ![s] = @ \cup next.sleeps]
  BY DEF StartGame
<1>7. PICK c \in Captains : c = captain[s] BY <1>0
<1>8. next \in FireNextVolley(c, "opening") BY <1>6, <1>7
<1>9. PICK y \in Unknown(c) :
        /\ next.captain = PlanNextShot(c, y)
        /\ next.sleeps = {[does |-> "launch", id |-> c.fired + 1, cell |-> y,
                           trigger |-> "opening"]}
        /\ next.sleeps \subseteq Tasks
  BY <1>3, <1>4, <1>5, <1>7, <1>8, FireNextIs
<1>10. PICK u \in Tasks : u = [does |-> "launch", id |-> c.fired + 1, cell |-> y,
                               trigger |-> "opening"]
  BY <1>9
<1>11. u.does = "launch" /\ u.id = c.fired + 1 /\ u.cell = y /\ u.trigger = "opening"
  BY <1>10
<1>12. task' = [task EXCEPT ![s] = task[s] \cup {u}] BY <1>6, <1>9, <1>10
<1>13. captain'[s] = PlanNextShot(c, y) BY <1>0, <1>6, <1>9
<1>14. Opening(s) BY <1>7, <1>9, <1>11, <1>12, <1>13 DEF Opening
<1> QED BY <1>2, <1>3, <1>14

LEMMA FatalIs ==
    ASSUME TypeOK, AtSetUp, Fatal
    PROVE  /\ main = "setup" /\ main' = "destroyBlue"
           /\ \A s \in Side : ~captain[s].linked /\ task[s] = {} /\ mail[s] = <<>>
           /\ UNCHANGED <<starter, view, screen, captain, task, mail, alive, cast, logAlive>>
<1>1. PICK s \in Side : At("create", s) \/ At("initialize", s) \/ At("place", s)
  BY DEF Fatal
<1>2. main = "setup" BY <1>1 DEF At
<1>3. line \in 0 .. 11 BY ScriptIs DEF TypeOK
<1>4. line \in 0 .. 7 BY <1>1, <1>3, AtLine DEF Here
<1>5. \A p \in Side : ~captain[p].linked /\ task[p] = {} /\ mail[p] = <<>>
  BY <1>2, <1>4 DEF AtSetUp
<1> QED BY <1>2, <1>5 DEF Fatal

\* main() returns: the terminal and the callbacks, then the destructors
Detach == /\ <<main, main'>> \in {<<"cleanUp", "offRed">>, <<"offRed", "offBlue">>,
                                  <<"offBlue", "destroyBlue">>}
          /\ UNCHANGED <<captain, mail, task, alive, logAlive>>
Close(s, from, to) ==
    /\ main = from /\ main' = to
    /\ captain' = [captain EXCEPT ![s] = [Unlinked(captain[s]) EXCEPT !.live = FALSE]]
    /\ mail' = [mail EXCEPT ![Other(s)] = <<>>]
    /\ UNCHANGED <<task, alive, logAlive>>
Reap(s, from, to) ==
    /\ main = from /\ main' = to /\ ~cast[s]
    /\ alive' = [alive EXCEPT ![s] = FALSE] /\ task' = [task EXCEPT ![s] = {}]
    /\ UNCHANGED <<captain, mail, logAlive>>

LEMMA ReturnIs ==
    ASSUME TypeOK, Return
    PROVE  /\ UNCHANGED <<line, starter, view, screen, cast>>
           /\ \/ Detach
              \/ Close("blue", "destroyBlue", "joinBlue") \/ Reap("blue", "joinBlue", "destroyRed")
              \/ Close("red", "destroyRed", "joinRed") \/ Reap("red", "joinRed", "destroyLog")
              \/ /\ main = "destroyLog" /\ main' = "done"
                 /\ UNCHANGED <<captain, mail, task, alive>>
<1>1. CASE Cleanup BY <1>1 DEF Cleanup, Restore, Detach
<1>2. CASE UnregisterCallbacks("red", "offRed", "offBlue")
            \/ UnregisterCallbacks("blue", "offBlue", "destroyBlue")
  BY <1>2 DEF UnregisterCallbacks, Detach
<1>3. CASE Shutdown("blue", "destroyBlue", "joinBlue")
  <2>1. captain["blue"] = captain["blue"] /\ captain \in [Side -> Captains] /\ "blue" \in Side
    BY TypesAre DEF Side
  <2> QED BY <1>3, <2>1 DEF Shutdown, Close
<1>4. CASE Shutdown("red", "destroyRed", "joinRed") BY <1>4 DEF Shutdown, Close
<1>5. CASE Join("blue", "joinBlue", "destroyRed") BY <1>5 DEF Join, Reap
<1>6. CASE Join("red", "joinRed", "destroyLog") BY <1>6 DEF Join, Reap
<1>7. CASE DestroyLog BY <1>7 DEF DestroyLog
<1> QED BY <1>1, <1>2, <1>3, <1>4, <1>5, <1>6, <1>7 DEF Return

LEMMA CloseIs ==
    ASSUME TypeOK, NEW s \in Side, NEW from, NEW to, Close(s, from, to)
    PROVE  /\ captain'[s] \in Captains
           /\ ~captain'[s].linked /\ ~captain'[s].over /\ ~captain'[s].won
           /\ captain'[Other(s)] = captain[Other(s)]
           /\ SameBoard(captain[s], captain'[s])
           /\ mail'[Other(s)] = <<>> /\ mail'[s] = mail[s]
<1>0. Other(s) \in Side /\ Other(s) # s /\ captain[s] \in Captains BY Sides, TypesAre
<1>1. PICK u \in Captains : u = Unlinked(captain[s]) BY <1>0, UnlinkedIs
<1>2. SameBoard(captain[s], u) /\ ~u.linked /\ ~u.over /\ ~u.won
  BY <1>0, <1>1, UnlinkedIs DEF SameBoard
<1> DEFINE e == [u EXCEPT !.live = FALSE]
<1>3. /\ e.linked = u.linked /\ e.over = u.over /\ e.won = u.won /\ SameBoard(u, e)
      /\ e \in Captains
  BY DEF Captains, SameBoard
<1>4. captain' = [captain EXCEPT ![s] = e] BY <1>1 DEF Close
<1> HIDE DEF e
<1>5. captain'[s] = e /\ captain'[Other(s)] = captain[Other(s)] BY <1>0, <1>4, TypesAre
<1>6. mail'[Other(s)] = <<>> /\ mail'[s] = mail[s] BY <1>0, TypesAre DEF Close
<1> QED BY <1>2, <1>3, <1>5, <1>6 DEF SameBoard

LEMMA ReapIs ==
    ASSUME TypeOK, NEW s \in Side, NEW from, NEW to, Reap(s, from, to)
    PROVE  /\ task'[s] = {} /\ task'[Other(s)] = task[Other(s)]
           /\ ~alive'[s] /\ alive'[Other(s)] = alive[Other(s)]
BY Sides, TypesAre DEF Reap, TypeOK

LEMMA DeliveryIs ==
    ASSUME NEW s \in Side, Delivery(s)
    PROVE  UNCHANGED <<mainVars, logAlive, alive, captain, task, mail, on>>
BY DEF Delivery, Deliver, Callback

\* The steps, as the invariants see them
LEMMA Steps ==
    ASSUME Inv, [Next]_vars
    PROVE  \/ /\ UNCHANGED <<main, line, starter, view, screen, captain, task, mail, alive, logAlive>>
              /\ UNCHANGED cast \/ \E s \in Side : Delivery(s)
           \/ Fatal \/ (\E s \in Side : SetUp(s)) \/ Observe \/ Return
           \/ (\E s \in Side : Processing(s)) /\ main # "setup"
<1>1. CASE UNCHANGED vars BY <1>1
<1>2. ASSUME NEW s \in Side, Processing(s) PROVE main # "setup"
  BY <1>2, NotInSetUp DEF Inv, SetUpInv
<1> QED BY <1>1, <1>2, DeliveryIs DEF Next, Main

LEMMA AtSetUpStep == Inv /\ [Next]_vars => AtSetUp'
<1> SUFFICES ASSUME Inv, [Next]_vars PROVE AtSetUp'
  OBVIOUS
<1>0. TypeOK /\ AtSetUp BY DEF Inv, SetUpInv
<1>1. CASE UNCHANGED <<main, line, captain, task, mail>> BY <1>0, <1>1 DEF AtSetUp
<1>2. ASSUME NEW s \in Side, SetUp(s) PROVE AtSetUp'
  <2>0. Side = {s, Other(s)} /\ captain[s] \in Captains /\ Other(s) # s BY <1>0, Sides, TypesAre
  <2>1. /\ main = "setup" /\ line \in 0 .. 10 /\ line' = line + 1
        /\ captain'[Other(s)] = captain[Other(s)] /\ Fresh(captain[s]) /\ mail' = mail
    BY <1>0, <1>2, ScriptStep
  <2>2. CASE main' = "setup" /\ task' = task
    <3>1. PICK c \in Captains : c = captain[s] BY <2>0
    <3>2. /\ Fresh(captain'[s]) /\ line \in 0 .. 9
          /\ captain'[s].linked <=> line' >= IF s = "red" THEN 9 ELSE 10
          /\ line' <= (IF s = "red" THEN 6 ELSE 7) => captain'[s].fleet = {}
      <4>1. CASE captain' = captain /\ line \notin {6, 7, 8, 9, 10}
        BY <1>0, <2>0, <2>1, <4>1 DEF AtSetUp
      <4>2. CASE Here(s, 4) /\ captain'[s] = NewCaptain
        <5>1. Fresh(captain'[s]) BY <2>1, <3>1, <4>2, FreshStays
        <5>2. ~captain'[s].linked /\ captain'[s].fleet = {} BY <4>2, NewCaptainIs
        <5> QED BY <2>1, <4>2, <5>1, <5>2 DEF Here
      <4>3. CASE Here(s, 6) /\ \E f \in Fleets : captain'[s] = [captain[s] EXCEPT !.fleet = f]
        <5>1. Fresh(captain'[s]) BY <2>1, <3>1, <4>3, FreshStays
        <5>2. captain'[s].linked = captain[s].linked BY <3>1, <4>3 DEF Captains
        <5> QED BY <1>0, <2>0, <2>1, <4>3, <5>1, <5>2 DEF Here, AtSetUp
      <4>4. CASE Here(s, 8) /\ captain'[s] = [Unlinked(captain[s]) EXCEPT !.linked = TRUE]
        <5>1. Fresh(captain'[s]) BY <2>1, <3>1, <4>4, FreshStays
        <5>2. captain'[s].linked BY <3>1, <4>4, UnlinkedIs DEF Captains
        <5> QED BY <2>1, <4>4, <5>1, <5>2 DEF Here
      <4> QED BY <1>0, <1>2, <2>2, <4>1, <4>2, <4>3, <4>4, ScriptStep
    <3>3. /\ Fresh(captain'[Other(s)])
          /\ captain'[Other(s)].linked <=> line' >= IF Other(s) = "red" THEN 9 ELSE 10
          /\ line' <= (IF Other(s) = "red" THEN 6 ELSE 7) => captain'[Other(s)].fleet = {}
      <4>1. \/ line \notin {6, 7, 8, 9, 10} \/ Here(s, 4) \/ Here(s, 6) \/ Here(s, 8)
        BY <1>0, <1>2, <2>2, ScriptStep
      <4> QED BY <1>0, <2>0, <2>1, <4>1 DEF AtSetUp, Here, Side, Other
    <3> QED BY <1>0, <2>0, <2>1, <2>2, <3>2, <3>3 DEF AtSetUp
  <2>3. CASE main' = "starting" BY <2>3 DEF AtSetUp
  <2> QED BY <1>0, <1>2, <2>1, <2>2, <2>3, ScriptStep
<1>3. CASE main' # "setup" BY <1>3 DEF AtSetUp
<1>4. Fatal \/ Observe \/ Return => main' # "setup"
  BY <1>0, FatalIs, ObserveIsRemote, ReturnIs DEF Detach, Close, Reap
<1>5. (\E s \in Side : Processing(s)) /\ main # "setup" => main' # "setup"
  BY <1>0, ProcessingKeeps
<1> QED BY <1>1, <1>2, <1>3, <1>4, <1>5, Steps

LEMMA LinkedIsReadyStep == Inv /\ [Next]_vars => LinkedIsReady'
<1> SUFFICES ASSUME Inv, [Next]_vars PROVE LinkedIsReady'
  OBVIOUS
<1>0. TypeOK /\ AtSetUp /\ LinkedIsReady BY DEF Inv, SetUpInv
<1>1. CASE UNCHANGED captain BY <1>0, <1>1 DEF LinkedIsReady
<1>2. ASSUME NEW s \in Side, SetUp(s) PROVE LinkedIsReady'
  <2>0. Side = {s, Other(s)} /\ captain[s] \in Captains BY <1>0, Sides, TypesAre
  <2>1. PICK c \in Captains : c = captain[s] BY <2>0
  <2>2. captain'[Other(s)] = captain[Other(s)] BY <1>0, <1>2, ScriptStep
  <2>3. captain'[s].linked => captain'[s].live /\ captain'[s].fleet # {}
    <3>1. CASE captain' = captain BY <1>0, <3>1 DEF LinkedIsReady
    <3>2. CASE captain'[s] = NewCaptain BY <3>2, NewCaptainIs
    <3>3. CASE \E f \in Fleets : captain'[s] = [captain[s] EXCEPT !.fleet = f]
      <4>1. PICK f \in Fleets : captain'[s] = [c EXCEPT !.fleet = f] BY <2>1, <3>3
      <4>2. f # {} BY DuelAssumption
      <4>3. /\ captain'[s].linked = c.linked /\ captain'[s].live = c.live
            /\ captain'[s].fleet = f
        BY <4>1 DEF Captains
      <4> QED BY <1>0, <2>1, <4>2, <4>3 DEF LinkedIsReady
    <3>4. CASE /\ captain[s].live /\ captain[s].fleet # {}
               /\ captain'[s] = [Unlinked(captain[s]) EXCEPT !.linked = TRUE]
      <4>1. PICK u \in Captains : u = Unlinked(c) BY UnlinkedIs
      <4>2. u.live = c.live /\ u.fleet = c.fleet BY <4>1, UnlinkedIs
      <4>3. captain'[s] = [u EXCEPT !.linked = TRUE] BY <2>1, <3>4, <4>1
      <4>4. captain'[s].live = u.live /\ captain'[s].fleet = u.fleet BY <4>3 DEF Captains
      <4> QED BY <2>1, <3>4, <4>2, <4>4
    <3>5. CASE StartGame(s)
      <4>1. PICK x \in Cells : captain'[s] = PlanNextShot(captain[s], x)
        BY <1>0, <3>5, StartGameIs DEF Opening, Unknown
      <4>2. PICK d : d = PlanNextShot(c, x) OBVIOUS
      <4>p. Planned(c, x, d) BY <4>2, PlanIs
      <4>3. d.live = c.live /\ d.fleet = c.fleet /\ d.linked = c.linked BY <4>p DEF Planned
      <4> QED BY <1>0, <2>1, <4>1, <4>2, <4>3 DEF LinkedIsReady
    <3> QED BY <1>0, <1>2, <3>1, <3>2, <3>3, <3>4, <3>5, ScriptStep
  <2> QED BY <1>0, <2>0, <2>2, <2>3 DEF LinkedIsReady
<1>3. CASE Fatal BY <1>0, <1>1, <1>3, FatalIs
<1>4. CASE Observe BY <1>0, <1>1, <1>4, ObserveIsRemote
<1>5. CASE Return
  <2>1. ASSUME NEW s \in Side, NEW from, NEW to, Close(s, from, to) PROVE LinkedIsReady'
    BY <1>0, <2>1, CloseIs, Sides DEF LinkedIsReady
  <2>2. CASE Close("blue", "destroyBlue", "joinBlue") \/ Close("red", "destroyRed", "joinRed")
    BY <2>1, <2>2 DEF Side
  <2> QED BY <1>0, <1>1, <1>5, <2>2, ReturnIs DEF Detach, Reap
<1>6. ASSUME NEW s \in Side, Processing(s) PROVE LinkedIsReady'
  BY <1>0, <1>6, ProcessingKeeps DEF LinkedIsReady
<1> QED BY <1>1, <1>2, <1>3, <1>4, <1>5, <1>6, Steps

\* A captain that is linked and has a turn to take is in the duel
LEMMA InDuel ==
    ASSUME Inv, Linked, main # "setup"
    PROVE  (\A s \in Side : Sound(captain[s])) /\ (\E q \in Side : Shape(q))
BY DEF Inv, Duel

\* The opening volley is launched by the one coroutine there is
LEMMA OpeningIsAlone ==
    ASSUME Inv, main # "setup", NEW s \in Side, NEW t \in task[s], t.does = "launch",
           t.trigger = "opening"
    PROVE  main = "starting" /\ Linked /\ task[s] = {t} /\ task[Other(s)] = {}
<1>1. main = "starting" /\ Linked BY DEF Inv, SetUpInv, Opens, WhereLinked, Dueling
<1>2. Launching(s) /\ task[s] = {t} BY <1>1, InDuel, WhoLaunches
<1> QED BY <1>1, <1>2 DEF Launching

LEMMA WhereLinkedStep == Inv /\ [Next]_vars => WhereLinked'
<1> SUFFICES ASSUME Inv, [Next]_vars PROVE WhereLinked'
  OBVIOUS
<1>0. TypeOK /\ AtSetUp /\ WhereLinked /\ Opens /\ "blue" \in Side /\ "red" \in Side
  BY DEF Inv, SetUpInv, Side
<1>1. CASE UNCHANGED <<main, captain>> BY <1>0, <1>1 DEF WhereLinked, Linked
<1>2. ASSUME NEW s \in Side, SetUp(s) PROVE WhereLinked'
  <2>1. CASE main' = "setup" BY <2>1 DEF WhereLinked, Dueling
  <2>2. CASE StartGame(s) /\ main' = "starting"
    <3>0. Side = {s, Other(s)} /\ captain[s] \in Captains BY <1>0, Sides, TypesAre
    <3>1. PICK x \in Cells : captain'[s] = PlanNextShot(captain[s], x)
      BY <1>0, <2>2, StartGameIs DEF Opening, Unknown
    <3>2. PICK c \in Captains : c = captain[s] BY <3>0
    <3>3. PICK d : d = PlanNextShot(c, x) OBVIOUS
    <3>p. Planned(c, x, d) BY <3>3, PlanIs
    <3>4. d.live = c.live /\ d.fleet = c.fleet /\ d.linked = c.linked BY <3>p DEF Planned
    <3>5. \A p \in Side : captain[p].linked BY <1>0, <2>2, StartGameIs
    <3>6. captain'[Other(s)] = captain[Other(s)] BY <1>0, <1>2, ScriptStep
    <3> QED BY <2>2, <3>0, <3>1, <3>2, <3>3, <3>4, <3>5, <3>6 DEF WhereLinked, Linked
  <2> QED BY <1>0, <1>2, <2>1, <2>2, ScriptStep
<1>3. CASE Fatal BY <1>0, <1>3, FatalIs DEF WhereLinked, Dueling
<1>4. CASE Observe BY <1>0, <1>4, ObserveIsRemote DEF WhereLinked, Dueling, Linked
<1>5. CASE Return
  <2>1. CASE Detach BY <1>0, <2>1 DEF Detach, WhereLinked, Dueling, Linked
  <2>2. CASE Close("blue", "destroyBlue", "joinBlue")
    <3>1. ~captain'["blue"].linked /\ main' = "joinBlue" BY <1>0, <2>2, CloseIs DEF Close
    <3> QED BY <3>1 DEF WhereLinked, Dueling
  <2>3. CASE Close("red", "destroyRed", "joinRed")
    <3>1. /\ ~captain'["red"].linked /\ main = "destroyRed" /\ main' = "joinRed"
          /\ captain'["blue"] = captain["blue"]
      BY <1>0, <2>3, CloseIs DEF Close, Other
    <3> QED BY <1>0, <3>1 DEF WhereLinked, Dueling, Side
  <2>4. CASE Reap("blue", "joinBlue", "destroyRed") \/ Reap("red", "joinRed", "destroyLog")
    BY <1>0, <2>4 DEF Reap, WhereLinked, Dueling
  <2>5. CASE main = "destroyLog" /\ main' = "done" /\ captain' = captain
    BY <1>0, <2>5 DEF WhereLinked, Dueling
  <2> QED BY <1>0, <1>5, <2>1, <2>2, <2>3, <2>4, <2>5, ReturnIs
<1>6. ASSUME NEW s \in Side, Processing(s), main # "setup" PROVE WhereLinked'
  <2>1. \A p \in Side : captain'[p].linked = captain[p].linked BY <1>0, <1>6, ProcessingKeeps
  <2>2. CASE main' = main BY <1>0, <2>1, <2>2 DEF WhereLinked, Linked
  <2>3. CASE main' # main
    <3>1. Launch(s) /\ main' = "started" BY <1>0, <1>6, <2>3, ProcessingKeeps
    <3>2. Linked BY <1>6, <2>3, <3>1, <1>0, LaunchIs, OpeningIsAlone
    <3> QED BY <2>1, <3>1, <3>2 DEF WhereLinked, Linked
  <2> QED BY <2>2, <2>3
<1> QED BY <1>1, <1>2, <1>3, <1>4, <1>5, <1>6, Steps

LEMMA OpensStep == Inv /\ [Next]_vars => Opens'
<1> SUFFICES ASSUME Inv, [Next]_vars PROVE Opens'
  OBVIOUS
<1>0. TypeOK /\ AtSetUp /\ Opens BY DEF Inv, SetUpInv
<1>1. CASE UNCHANGED <<main, task>> BY <1>0, <1>1 DEF Opens
<1>2. ASSUME NEW s \in Side, SetUp(s) PROVE Opens'
  <2>1. main = "setup" /\ (main' = "starting" \/ UNCHANGED <<main, task>>)
    BY <1>0, <1>2, ScriptStep
  <2> QED BY <1>1, <2>1 DEF Opens
<1>3. CASE Fatal BY <1>0, <1>3, FatalIs DEF Opens
<1>4. CASE Observe BY <1>0, <1>4, ObserveIsRemote DEF Opens
<1>5. CASE Return
  <2>1. main # "starting" /\ \A p \in Side : task'[p] \subseteq task[p]
    <3>1. ASSUME NEW s \in Side, NEW from, NEW to, Reap(s, from, to)
          PROVE  \A p \in Side : task'[p] \subseteq task[p]
      BY <1>0, <3>1, ReapIs, Sides
    <3> QED BY <1>0, <1>5, <3>1, ReturnIs DEF Detach, Close, Reap, Side
  <2> QED BY <1>0, <2>1 DEF Opens
<1>6. ASSUME NEW s \in Side, Processing(s), main # "setup" PROVE Opens'
  <2>0. Side = {s, Other(s)} BY Sides
  <2>1. CASE main' = main
    <3>1. \A p \in Side : \A t \in task'[p] : t.trigger = "opening" => t \in task[p]
      <4>1. CASE HearFire(s)
        <5>1. task \in [Side -> SUBSET Tasks] BY <1>0, TypesAre
        <5> QED BY <1>0, <4>1, <5>1, HearFireIs
      <4>2. CASE HearReply(s) BY <1>0, <4>2, HearReplyIs
      <4>3. CASE RefuseShot(s)
        <5>1. task \in [Side -> SUBSET Tasks] BY <1>0, TypesAre
        <5> QED BY <1>0, <4>3, <5>1, RefuseShotIs
      <4>4. CASE TakeShot(s)
        BY <1>0, <2>0, <4>4, TakeShotIs DEF Shot, Stays, Counters
      <4>5. CASE Launch(s)
        <5>1. task \in [Side -> SUBSET Tasks] BY <1>0, TypesAre
        <5> QED BY <1>0, <4>5, <5>1, LaunchIs
      <4> QED BY <1>6, <4>1, <4>2, <4>3, <4>4, <4>5 DEF Processing
    <3> QED BY <1>0, <2>1, <3>1 DEF Opens
  <2>2. CASE main' # main
    <3>1. Launch(s) BY <1>0, <1>6, <2>2, ProcessingKeeps
    <3>2. PICK t \in task[s] :
            /\ t.does = "launch" /\ task' = [task EXCEPT ![s] = task[s] \ {t}]
            /\ t.trigger = "opening"
      BY <1>0, <2>2, <3>1, LaunchIs
    <3>3. task[s] = {t} /\ task[Other(s)] = {} BY <1>6, <3>2, OpeningIsAlone
    <3>4. task \in [Side -> SUBSET Tasks] BY <1>0, TypesAre
    <3>5. task'[s] = {} /\ task'[Other(s)] = {} BY <2>0, <3>2, <3>3, <3>4
    <3> QED BY <2>0, <3>5 DEF Opens
  <2> QED BY <2>1, <2>2
<1> QED BY <1>1, <1>2, <1>3, <1>4, <1>5, <1>6, Steps

LEMMA ThreadsStep == Inv /\ [Next]_vars => Threads'
<1> SUFFICES ASSUME Inv, [Next]_vars PROVE Threads'
  OBVIOUS
<1>0. TypeOK /\ AtSetUp /\ Threads /\ WhereLinked BY DEF Inv, SetUpInv
<1>1. CASE UNCHANGED <<main, alive, cast, logAlive>> BY <1>0, <1>1 DEF Threads
<1>2. ASSUME NEW s \in Side, SetUp(s) PROVE Threads'
  <2>1. main = "setup" /\ main' \in {"setup", "starting"} /\ logAlive' = logAlive
    BY <1>0, <1>2, ScriptStep
  <2> QED BY <1>0, <2>1 DEF Threads
<1>3. CASE Fatal BY <1>0, <1>3, FatalIs DEF Threads
<1>4. CASE Observe BY <1>0, <1>4, ObserveIsRemote DEF Threads
<1>5. CASE Return
  <2>1. CASE Reap("blue", "joinBlue", "destroyRed") \/ Reap("red", "joinRed", "destroyLog")
    <3>1. alive \in [Side -> BOOLEAN] /\ cast' = cast BY <1>0, <1>5, ReturnIs DEF TypeOK
    <3> QED BY <1>0, <2>1, <3>1 DEF Threads, Reap, Side
  <2> QED BY <1>0, <1>5, <2>1, ReturnIs DEF Threads, Detach, Close
<1>6. ASSUME NEW s \in Side, Processing(s), main # "setup" PROVE Threads'
  <2>1. UNCHANGED <<logAlive, alive, cast>> BY <1>0, <1>6, ProcessingKeeps
  <2>2. CASE main' = main BY <1>0, <2>1, <2>2 DEF Threads
  <2>3. CASE main' # main
    <3>1. Launch(s) /\ main' = "started" BY <1>0, <1>6, <2>3, ProcessingKeeps
    <3>2. main = "starting" BY <1>6, <2>3, <3>1, <1>0, LaunchIs, OpeningIsAlone
    <3> QED BY <1>0, <2>1, <3>1, <3>2 DEF Threads
  <2> QED BY <2>2, <2>3
<1>7. ASSUME NEW s \in Side, Delivery(s) PROVE Threads'
  <2>1. UNCHANGED <<main, alive, logAlive>> BY <1>7, DeliveryIs
  <2>2. cast' \in {[cast EXCEPT ![s] = FALSE]} \cup (IF alive[s] THEN {[cast EXCEPT ![s] = on[s]]} ELSE {})
    BY <1>7 DEF Delivery, Deliver, Callback
  <2>3. cast \in [Side -> BOOLEAN] BY <1>0 DEF TypeOK
  <2> QED BY <1>0, <2>1, <2>2, <2>3 DEF Threads, Side
<1> QED BY <1>1, <1>2, <1>3, <1>4, <1>5, <1>6, <1>7, Steps

-----------------------------------------------------------------------------
(* The duel, one step at a time *)

LEMMA DuelFrame ==
    ASSUME Duel, Linked', main # "setup", UNCHANGED <<captain, task, mail, starter>>,
           main' = "starting" <=> main = "starting"
    PROVE  Duel'
<1>1. (\A s \in Side : Sound(captain[s])) /\ (\E q \in Side : Shape(q)) BY DEF Duel, Linked
<1>2. PICK q \in Side : Shape(q) BY <1>1
<1>3. CASE Launching(q)
  <2>1. Launching(q)' BY <1>3 DEF Launching, Due, Told
  <2> QED BY <1>1, <1>2, <2>1 DEF Shape, Duel
<1>4. CASE Flying(q)
  <2>1. Flying(q)' BY <1>4 DEF Flying, Due
  <2> QED BY <1>1, <1>2, <2>1 DEF Shape, Duel
<1>5. CASE Landing(q)
  <2>1. Landing(q)' BY <1>5 DEF Landing, Due
  <2> QED BY <1>1, <1>2, <2>1 DEF Shape, Duel
<1>6. CASE Beaten(q)
  <2>1. Beaten(q)' BY <1>6 DEF Beaten
  <2> QED BY <1>1, <1>2, <2>1 DEF Shape, Duel
<1> QED BY <1>2, <1>3, <1>4, <1>5, <1>6 DEF Shape

\* What makes the duel of the next state
LEMMA DuelFollows ==
    ASSUME NEW s \in Side, Sound(captain'[s]), Sound(captain'[Other(s)]),
           NEW q \in Side, Launching(q)' \/ Flying(q)' \/ Landing(q)' \/ Beaten(q)'
    PROVE  Duel'
<1>1. Side = {s, Other(s)} BY Sides
<1>2. \A p \in Side : Sound(captain'[p]) BY <1>1
<1> QED BY <1>2 DEF Duel, Shape

LEMMA DueSame ==
    ASSUME NEW s \in Side, NEW p \in Side, Due(p), starter' = starter,
           SameBoard(captain[s], captain'[s]), SameEnd(captain[s], captain'[s]),
           captain'[Other(s)] = captain[Other(s)]
    PROVE  Due(p)'
<1>1. Side = {s, Other(s)} /\ Other(p) \in Side BY Sides
<1>2. Resolved(captain'[s]) = Resolved(captain[s]) BY DEF SameBoard, Resolved
<1>3. \A x \in Side : /\ captain'[x].over = captain[x].over /\ captain'[x].won = captain[x].won
                      /\ Resolved(captain'[x]) = Resolved(captain[x])
  BY <1>1, <1>2 DEF SameEnd
<1> QED BY <1>1, <1>3 DEF Due

LEMMA Boxes ==
    ASSUME NEW m \in Seq(Volleys)
    PROVE  /\ m = <<>> <=> Len(m) = 0
           /\ Len(m) = 1 => Tail(m) = <<>>
           /\ Len(m) = 2 => Len(Tail(m)) = 1 /\ Tail(m)[1] = m[2]
<1>1. m = <<>> <=> Len(m) = 0 OBVIOUS
<1>2. ASSUME Len(m) = 1 PROVE Tail(m) = <<>>
  <2>1. m # <<>> BY <1>1, <1>2
  <2>2. Tail(m) \in Seq(Volleys) /\ Len(Tail(m)) = 0 BY <1>2, <2>1
  <2>3. PICK n \in Seq(Volleys) : n = Tail(m) BY <2>2
  <2>4. n = <<>> <=> Len(n) = 0 OBVIOUS
  <2> QED BY <2>2, <2>3, <2>4
<1>3. ASSUME Len(m) = 2 PROVE Len(Tail(m)) = 1 /\ Tail(m)[1] = m[2]
  BY <1>3
<1> QED BY <1>1, <1>2, <1>3

LEMMA HearFireDuels ==
    ASSUME Inv, Linked, main # "setup", NEW s \in Side, HearFire(s)
    PROVE  Duel'
<1> DEFINE o == Other(s)
<1>0. /\ TypeOK /\ o \in Side /\ o # s /\ Other(o) = s /\ Side = {s, o}
      /\ mail[o] \in Seq(Volleys)
      /\ task \in [Side -> SUBSET Tasks] /\ mail \in [Side -> Seq(Volleys)]
  BY Sides, TypesAre DEF Inv
<1>1. /\ mail[o] # <<>> /\ mail[o][1].stage = "fire"
      /\ mail' = [mail EXCEPT ![o] = Tail(mail[o])]
      /\ captain'[o] = captain[o] /\ Alike(captain[s], captain'[s])
      /\ ~captain[s].over =>
           \E t \in Tasks :
             /\ t.does = "receive" /\ t.id = mail[o][1].id /\ t.cell = mail[o][1].cell
             /\ task' = [task EXCEPT ![s] = task[s] \cup {t}]
      /\ main' = main /\ starter' = starter
  BY <1>0, HearFireIs
<1>2. (\A p \in Side : Sound(captain[p])) /\ (\E q \in Side : Shape(q)) BY InDuel
<1>3. Flying(o) /\ Len(mail[o]) = 1
  BY <1>0, <1>1, <1>2, WhoMails DEF Launching, Told, Flying, Beaten, Answered
<1>4. /\ Due(o) /\ main # "starting" /\ mail[s] = <<>> /\ task[s] = {} /\ task[o] = {}
      /\ Settled(captain[s], captain[o])
      /\ Aiming(captain[o], captain[s], mail[o][1].id, mail[o][1].cell)
  <2>1. mail[o][1].stage # "reply" BY <1>1
  <2>2. Settled(captain[s], captain[o]) BY <1>0, <1>3, <2>1 DEF Flying, Answered
  <2> QED BY <1>0, <1>3, <2>2 DEF Flying
<1>5. ~captain[s].over BY <1>4 DEF Due
<1>6. PICK t \in Tasks :
             /\ t.does = "receive" /\ t.id = mail[o][1].id /\ t.cell = mail[o][1].cell
             /\ task' = [task EXCEPT ![s] = task[s] \cup {t}]
  BY <1>1, <1>5
<1>7. mail'[o] = <<>> /\ mail'[s] = <<>>
  <2>1. Tail(mail[o]) = <<>> BY <1>0, <1>3, Boxes
  <2> QED BY <1>0, <1>1, <1>4, <2>1
<1>8. task'[s] = {t} /\ task'[o] = {} BY <1>0, <1>4, <1>6
<1>9. /\ SameBoard(captain[s], captain'[s]) /\ SameChart(captain[s], captain'[s])
      /\ SameEnd(captain[s], captain'[s])
      /\ SameBoard(captain[o], captain'[o]) /\ SameChart(captain[o], captain'[o])
      /\ SameEnd(captain[o], captain'[o])
  BY <1>1 DEF Alike, SameBoard, SameChart, SameEnd
<1>10. Sound(captain'[s]) /\ Sound(captain'[o]) BY <1>0, <1>2, <1>9, SoundSame
<1>11. Settled(captain'[s], captain'[o]) BY <1>4, <1>9, SettledSame
<1>12. Aiming(captain'[o], captain'[s], t.id, t.cell) BY <1>4, <1>6, <1>9, AimingSame
<1>13. Due(o)' BY <1>0, <1>1, <1>4, <1>9, DueSame
<1>14. Landing(o)' BY <1>0, <1>1, <1>4, <1>6, <1>7, <1>8, <1>11, <1>12, <1>13 DEF Landing
<1> QED BY <1>0, <1>10, <1>14, DuelFollows

LEMMA RefuseShotNot ==
    ASSUME Inv, Linked, main # "setup", NEW s \in Side, RefuseShot(s)
    PROVE  FALSE
<1>0. TypeOK /\ Other(s) \in Side /\ Other(Other(s)) = s BY Sides DEF Inv
<1>1. PICK t \in task[s] : /\ t.does = "receive" /\ t \in Tasks
                           /\ ~Playing(captain[s]) \/ t.cell \in Resolved(captain[s])
  BY <1>0, RefuseShotIs
<1>2. (\A p \in Side : Sound(captain[p])) /\ (\E q \in Side : Shape(q)) BY InDuel
<1>3. Landing(Other(s)) /\ task[s] = {t} BY <1>1, <1>2, WhoReceives
<1>4. /\ Aiming(captain[Other(s)], captain[s], t.id, t.cell) /\ Due(Other(s))
  BY <1>0, <1>3 DEF Landing
<1>5. t.cell \in Cells BY <1>1 DEF Tasks
<1>6. t.cell \notin Resolved(captain[s]) BY <1>4, <1>5 DEF Aiming, Knows
<1>7. Playing(captain[s]) BY <1>2, <1>4 DEF Playing, Sound, Due, Linked
<1> QED BY <1>1, <1>6, <1>7

LEMMA LaunchDuels ==
    ASSUME Inv, Linked, main # "setup", NEW s \in Side, Launch(s)
    PROVE  Duel'
<1> DEFINE o == Other(s)
<1>0. /\ TypeOK /\ o \in Side /\ o # s /\ Other(o) = s /\ Side = {s, o}
      /\ mail[s] \in Seq(Volleys) /\ task \in [Side -> SUBSET Tasks]
  BY Sides, TypesAre DEF Inv
<1>1. PICK t \in task[s] :
        /\ t \in Tasks /\ t.does = "launch"
        /\ task' = [task EXCEPT ![s] = task[s] \ {t}]
        /\ mail'[o] = mail[o]
        /\ mail'[s] = IF captain[o].linked THEN Append(mail[s], Fire(t)) ELSE mail[s]
        /\ main' = IF t.trigger = "opening" THEN "started" ELSE main
  BY <1>0, LaunchIs
<1>2. UNCHANGED <<captain, starter>> BY <1>0, LaunchIs
<1>3. (\A p \in Side : Sound(captain[p])) /\ (\E q \in Side : Shape(q)) BY InDuel
<1>4. Launching(s) /\ task[s] = {t} BY <1>1, <1>3, WhoLaunches
<1>5. /\ Due(s) /\ Told(s) /\ mail[o] = <<>> /\ task[o] = {}
      /\ t.trigger = "opening" <=> main = "starting"
      /\ Aiming(captain[s], captain[o], t.id, t.cell)
  BY <1>4 DEF Launching
<1>6. main' # "starting" BY <1>1, <1>5
<1>7. task'[s] = {} /\ task'[o] = {} BY <1>0, <1>1, <1>4, <1>5
<1>8. PICK f \in Volleys : f = Fire(t) BY <1>1, FireIs
<1>9. f.stage = "fire" /\ f.id = t.id /\ f.cell = t.cell BY <1>1, <1>8, FireIs
<1>10. mail'[s] = Append(mail[s], f) BY <1>0, <1>1, <1>8 DEF Linked
<1>11. /\ Len(mail[s]) \in Nat /\ Len(mail'[s]) = Len(mail[s]) + 1
       /\ mail'[s][Len(mail[s]) + 1] = f
       /\ Len(mail[s]) = 1 => mail'[s][1] = mail[s][1]
  BY <1>0, <1>10
<1>12. \/ Len(mail'[s]) = 1 /\ Settled(captain'[o], captain'[s])
       \/ Len(mail'[s]) = 2 /\ Answered(captain'[o], captain'[s], mail'[s][1])
  <2>1. CASE mail[s] = <<>> /\ Settled(captain[o], captain[s])
    <3>1. Len(mail[s]) = 0 BY <1>0, <2>1, Boxes
    <3> QED BY <1>2, <1>11, <2>1, <3>1
  <2>2. CASE Len(mail[s]) = 1 /\ Answered(captain[o], captain[s], mail[s][1])
    <3>1. Len(mail'[s]) = 2 /\ mail'[s][1] = mail[s][1] BY <1>11, <2>2
    <3> QED BY <1>2, <2>2, <3>1
  <2> QED BY <1>5, <2>1, <2>2 DEF Told
<1>13. Due(s)' BY <1>0, <1>2, <1>5, DueSame DEF SameBoard, SameEnd
<1>14. Flying(s)'
  <2>1. LET g == mail'[s][Len(mail'[s])]
        IN g.stage = "fire" /\ Aiming(captain'[s], captain'[o], g.id, g.cell)
    BY <1>2, <1>5, <1>9, <1>11
  <2> QED BY <1>0, <1>1, <1>5, <1>6, <1>7, <1>12, <1>13, <2>1 DEF Flying
<1> QED BY <1>0, <1>2, <1>3, <1>14, DuelFollows

LEMMA HearReplyDuels ==
    ASSUME Inv, Linked, main # "setup", NEW s \in Side, HearReply(s)
    PROVE  Duel'
<1> DEFINE o == Other(s)
<1>0. /\ TypeOK /\ o \in Side /\ o # s /\ Other(o) = s /\ Side = {s, o}
      /\ mail[o] \in Seq(Volleys) /\ captain[s] \in Captains /\ captain[o] \in Captains
      /\ mail \in [Side -> Seq(Volleys)]
  BY Sides, TypesAre DEF Inv
<1>1. PICK a \in Captains, b \in Captains : a = captain[s] /\ b = captain[o] BY <1>0
<1>2. PICK v : v = mail[o][1] OBVIOUS
<1>3. /\ mail[o] # <<>> /\ v.stage = "reply" /\ v \in Volleys
      /\ mail' = [mail EXCEPT ![o] = Tail(mail[o])]
      /\ captain'[o] = b
      /\ captain'[s] = IF ~a.over /\ a.pending = [id |-> v.id, cell |-> v.cell]
                         THEN ObserveOutcome(a, v) ELSE a
      /\ UNCHANGED <<main, starter, task>>
  BY <1>0, <1>1, <1>2, HearReplyIs
<1>4. Sound(a) /\ Sound(b) /\ (\E q \in Side : Shape(q)) BY <1>0, <1>1, InDuel
<1>5. Launching(o) \/ Flying(o) \/ Beaten(o) BY <1>0, <1>3, <1>4, WhoMails
<1>6. mail[o] = <<>> <=> Len(mail[o]) = 0 BY <1>0, Boxes
<1>7. /\ Answered(a, b, v) /\ ~a.over /\ ~a.won
      /\ \/ Launching(o) /\ Len(mail[o]) = 1
         \/ Flying(o) /\ Len(mail[o]) = 2
         \/ Beaten(o) /\ Len(mail[o]) = 1
  <2>1. CASE Launching(o)
    BY <1>0, <1>1, <1>2, <1>3, <2>1 DEF Launching, Told, Due
  <2>2. CASE Flying(o)
    <3>1. Len(mail[o]) # 1 BY <1>2, <1>3, <2>2 DEF Flying
    <3> QED BY <1>0, <1>1, <1>2, <2>2, <3>1 DEF Flying, Due
  <2>3. CASE Beaten(o)
    BY <1>0, <1>1, <1>2, <1>3, <2>3 DEF Beaten
  <2> QED BY <1>5, <2>1, <2>2, <2>3
<1>8. PICK d : d = ObserveOutcome(a, v) OBVIOUS
<1>9. captain'[s] = d BY <1>3, <1>7, <1>8 DEF Answered
<1>10. /\ Settled(d, b) /\ SameBoard(a, d) /\ Sound(d)
       /\ d.over = v.over /\ d.won = v.over
  BY <1>3, <1>4, <1>7, <1>8, HeardIs
<1>11. v.over <=> b.over BY <1>7 DEF Answered
<1>12. /\ SameChart(b, b) /\ SameBoard(b, b) /\ Resolved(d) = Resolved(a)
  BY <1>10 DEF SameChart, SameBoard, Resolved
<1>13. mail'[s] = mail[s] /\ mail'[o] = Tail(mail[o]) BY <1>0, <1>3
<1>14. CASE Launching(o) /\ Len(mail[o]) = 1
  <2>1. /\ Due(o) /\ mail[s] = <<>> /\ task[s] = {} BY <1>0, <1>14 DEF Launching
  <2>2. PICK t \in task[o] :
         /\ task[o] = {t} /\ t.does = "launch"
         /\ t.trigger = "opening" <=> main = "starting"
         /\ Aiming(b, a, t.id, t.cell)
    BY <1>0, <1>1, <1>14 DEF Launching
  <2>3. ~b.over BY <1>0, <1>1, <2>1 DEF Due
  <2>4. ~d.over /\ ~d.won BY <1>10, <1>11, <2>3
  <2>5. mail'[o] = <<>> /\ mail'[s] = <<>> BY <1>0, <1>13, <1>14, <2>1, Boxes
  <2>6. Due(o)' BY <1>0, <1>1, <1>3, <1>9, <1>12, <2>1, <2>4 DEF Due
  <2>7. Aiming(b, d, t.id, t.cell) BY <1>10, <1>12, <2>2, AimingSame
  <2>8. Told(o)' BY <1>0, <1>3, <1>9, <1>10, <2>5 DEF Told
  <2>9. Launching(o)' BY <1>0, <1>3, <1>9, <2>1, <2>2, <2>5, <2>6, <2>7, <2>8 DEF Launching
  <2> QED BY <1>0, <1>3, <1>4, <1>9, <1>10, <2>9, DuelFollows
<1>15. CASE Flying(o) /\ Len(mail[o]) = 2
  <2>1. /\ Due(o) /\ main # "starting" /\ mail[s] = <<>> /\ task[s] = {} /\ task[o] = {}
        /\ mail[o][2].stage = "fire" /\ Aiming(b, a, mail[o][2].id, mail[o][2].cell)
    BY <1>0, <1>1, <1>15 DEF Flying
  <2>2. PICK f : f = mail[o][2] OBVIOUS
  <2>3. ~b.over BY <1>0, <1>1, <2>1 DEF Due
  <2>4. ~d.over /\ ~d.won BY <1>10, <1>11, <2>3
  <2>5. mail'[s] = <<>> /\ Len(mail'[o]) = 1 /\ mail'[o][1] = f
    BY <1>0, <1>13, <1>15, <2>1, <2>2, Boxes
  <2>6. Due(o)' BY <1>0, <1>1, <1>3, <1>9, <1>12, <2>1, <2>4 DEF Due
  <2>7. Aiming(b, d, f.id, f.cell) BY <1>10, <1>12, <2>1, <2>2, AimingSame
  <2>8. LET g == mail'[o][Len(mail'[o])]
        IN g.stage = "fire" /\ Aiming(captain'[o], captain'[s], g.id, g.cell)
    BY <1>3, <1>9, <2>1, <2>2, <2>5, <2>7
  <2>9. Flying(o)' BY <1>0, <1>3, <1>9, <1>10, <2>1, <2>5, <2>6, <2>8 DEF Flying
  <2> QED BY <1>0, <1>3, <1>4, <1>9, <1>10, <2>9, DuelFollows
<1>16. CASE Beaten(o) /\ Len(mail[o]) = 1
  <2>1. /\ main # "starting" /\ mail[s] = <<>> /\ task[s] = {} /\ task[o] = {}
        /\ Settled(b, a) /\ b.over /\ ~b.won
    BY <1>0, <1>1, <1>16 DEF Beaten
  <2>2. d.over /\ d.won BY <1>10, <1>11, <2>1
  <2>3. mail'[o] = <<>> /\ mail'[s] = <<>> BY <1>0, <1>13, <1>16, <2>1, Boxes
  <2>4. Settled(b, d) BY <1>10, <1>12, <2>1, SettledSame
  <2>5. Beaten(o)' BY <1>0, <1>3, <1>9, <1>10, <2>1, <2>2, <2>3, <2>4 DEF Beaten
  <2> QED BY <1>0, <1>3, <1>4, <1>9, <1>10, <2>5, DuelFollows
<1> QED BY <1>7, <1>14, <1>15, <1>16

\* The shot that s takes during the duel: whose it is, and what becomes of s
LEMMA ShotIs ==
    ASSUME Inv, Linked, main # "setup", NEW s \in Side, NEW t, NEW d, Shot(s, t, d)
    PROVE  LET o == Other(s) a == captain[o] b == captain[s] IN
           /\ Due(o) /\ main # "starting" /\ mail[s] = <<>> /\ mail[o] = <<>>
           /\ task[o] = {} /\ task[s] = {t}
           /\ Sound(a) /\ Sound(b) /\ Settled(b, a)
           /\ d \in Captains /\ t.cell \in Cells /\ t.cell \notin Resolved(b)
           /\ Resolved(d) = Resolved(b) \cup {t.cell}
           /\ Cardinality(Resolved(d)) = Cardinality(Resolved(b)) + 1
           /\ d.fleet = b.fleet /\ d.linked = b.linked /\ ~d.won /\ Sound(d)
           /\ Settled(d, a) /\ mail'[s] = <<Reply(t, d)>> /\ Answered(a, d, Reply(t, d))
<1>0. /\ TypeOK /\ Other(s) \in Side /\ Other(s) # s /\ Other(Other(s)) = s
      /\ Side = {s, Other(s)}
      /\ captain[s] \in Captains /\ captain[Other(s)] \in Captains
  BY Sides, TypesAre DEF Inv
<1>1. PICK a \in Captains, b \in Captains : a = captain[Other(s)] /\ b = captain[s] BY <1>0
<1>2. Sound(a) /\ Sound(b) /\ (\E q \in Side : Shape(q)) BY <1>0, <1>1, InDuel
<1>3. /\ t \in task[s] /\ t \in Tasks /\ t.does = "receive" /\ d = ReceiveShot(b, t.cell)
      /\ mail'[s] = IF captain[Other(s)].linked THEN Append(mail[s], Reply(t, d)) ELSE mail[s]
  BY <1>1 DEF Shot
<1>4. Landing(Other(s)) /\ task[s] = {t} BY <1>2, <1>3, WhoReceives
<1>5. /\ Due(Other(s)) /\ main # "starting" /\ mail[s] = <<>> /\ mail[Other(s)] = <<>>
      /\ task[Other(s)] = {} /\ Settled(b, a) /\ Aiming(a, b, t.id, t.cell)
  BY <1>0, <1>1, <1>4 DEF Landing
<1>6. ~b.over /\ ~b.won BY <1>0, <1>1, <1>5 DEF Due
<1>7. PICK r : r = Reply(t, d) OBVIOUS
<1>8. /\ d \in Captains /\ t.cell \in Cells /\ t.cell \notin Resolved(b)
      /\ Resolved(d) = Resolved(b) \cup {t.cell}
      /\ Cardinality(Resolved(d)) = Cardinality(Resolved(b)) + 1
      /\ SameChart(b, d) /\ d.fleet = b.fleet /\ d.linked = b.linked
      /\ ~d.won /\ Sound(d) /\ Answered(a, d, r) /\ r \in Volleys
  BY <1>2, <1>3, <1>5, <1>6, <1>7, TakenIs
<1>9. SameBoard(a, a) BY DEF SameBoard
<1>10. Settled(d, a) BY <1>5, <1>8, <1>9, SettledSame
<1>11. mail'[s] = <<r>> BY <1>0, <1>3, <1>5, <1>7 DEF Linked
<1> QED BY <1>1, <1>2, <1>4, <1>5, <1>7, <1>8, <1>10, <1>11

LEMMA TakeShotDuels ==
    ASSUME Inv, Linked, main # "setup", NEW s \in Side, TakeShot(s)
    PROVE  Duel'
<1> DEFINE o == Other(s)
<1>0. /\ TypeOK /\ o \in Side /\ o # s /\ Other(o) = s /\ Side = {s, o}
      /\ captain[s] \in Captains /\ captain[o] \in Captains /\ starter \in Side
  BY Sides, TypesAre DEF Inv, TypeOK
<1>1. PICK t, d :
        /\ Shot(s, t, d)
        /\ \/ /\ d.over \/ ~Playing(d) \/ d.pending # NoShot \/ Unknown(d) = {}
              /\ Stays(s, t, d)
           \/ ~d.over /\ Counters(s, t, d)
  BY <1>0, TakeShotIs
<1>2. UNCHANGED <<main, starter>> BY <1>0, TakeShotIs
<1>3. PICK a \in Captains, b \in Captains : a = captain[o] /\ b = captain[s] BY <1>0
<1>4. PICK r : r = Reply(t, d) OBVIOUS
<1>5. /\ Due(o) /\ main # "starting" /\ mail[o] = <<>> /\ task[o] = {} /\ task[s] = {t}
      /\ Sound(a) /\ d \in Captains
      /\ Cardinality(Resolved(d)) = Cardinality(Resolved(b)) + 1
      /\ d.fleet = b.fleet /\ d.linked = b.linked /\ ~d.won /\ Sound(d)
      /\ Settled(d, a) /\ mail'[s] = <<r>> /\ Answered(a, d, r)
  BY <1>1, <1>3, <1>4, ShotIs
<1>6. captain'[o] = a /\ mail'[o] = <<>> /\ task'[o] = {} BY <1>1, <1>3, <1>5 DEF Shot
<1>7. ~a.over /\ ~a.won BY <1>0, <1>3, <1>5 DEF Due
<1>8. Len(mail'[s]) = 1 /\ mail'[s][1] = r BY <1>5
<1>9. CASE /\ d.over \/ ~Playing(d) \/ d.pending # NoShot \/ Unknown(d) = {}
           /\ Stays(s, t, d)
  <2>1. captain'[s] = d /\ task'[s] = {} BY <1>5, <1>9 DEF Stays
  <2>2. d.over
    <3>1. SUFFICES ASSUME ~d.over PROVE FALSE OBVIOUS
    <3>2. Playing(d) BY <1>3, <1>5, <3>1 DEF Playing, Sound, Linked
    <3>3. d.pending = NoShot BY <1>5 DEF Settled
    <3>4. Unknown(d) # {} BY <1>5, <1>7, CellsLeft
    <3> QED BY <1>9, <3>1, <3>2, <3>3, <3>4
  <2>3. Beaten(s)'
    BY <1>0, <1>2, <1>5, <1>6, <1>7, <1>8, <2>1, <2>2 DEF Beaten
  <2> QED BY <1>0, <1>5, <1>6, <2>1, <2>3, DuelFollows
<1>10. CASE ~d.over /\ Counters(s, t, d)
  <2>1. PICK x \in Unknown(d), u \in Tasks :
          /\ captain'[s] = PlanNextShot(d, x)
          /\ u.does = "launch" /\ u.id = d.fired + 1 /\ u.cell = x /\ u.trigger = "counter"
          /\ task'[s] = (task[s] \ {t}) \cup {u}
    BY <1>10 DEF Counters
  <2>2. PICK e : e = PlanNextShot(d, x) OBVIOUS
  <2>3. Aiming(e, a, d.fired + 1, x) /\ SameBoard(d, e) /\ SameEnd(d, e)
    BY <1>5, <2>2, AimIs
  <2>4. captain'[s] = e /\ task'[s] = {u} BY <1>5, <2>1, <2>2
  <2>5. Sound(e) BY <1>5, <2>3, SoundSame
  <2>6. Aiming(e, a, u.id, u.cell) BY <2>1, <2>3
  <2>7. Answered(a, e, r)
    <3>1. SameChart(a, a) /\ e.over = d.over BY <2>3 DEF SameChart, SameEnd
    <3> QED BY <1>5, <2>3, <3>1, AnsweredSame
  <2>8. Told(s)' BY <1>6, <1>8, <2>4, <2>7 DEF Told
  <2>9. Due(s)'
    <3>1. Resolved(e) = Resolved(d) /\ ~e.over /\ ~e.won
      BY <1>5, <1>10, <2>3 DEF SameBoard, SameEnd, Resolved
    <3>2. /\ Cardinality(Resolved(a)) \in Nat /\ Cardinality(Resolved(b)) \in Nat
          /\ Cardinality(Resolved(a)) = Cardinality(Resolved(b)) + IF o = starter THEN 0 ELSE 1
      BY <1>0, <1>3, <1>5, ResolvedIs DEF Due
    <3>3. s = starter <=> o # starter BY <1>0
    <3>4. Cardinality(Resolved(e)) = Cardinality(Resolved(a)) + IF s = starter THEN 0 ELSE 1
      BY <1>5, <3>1, <3>2, <3>3
    <3> QED BY <1>0, <1>2, <1>6, <1>7, <2>4, <3>1, <3>4 DEF Due
  <2>10. Launching(s)'
    BY <1>0, <1>2, <1>5, <1>6, <2>1, <2>4, <2>6, <2>8, <2>9 DEF Launching
  <2> QED BY <1>0, <1>5, <1>6, <2>4, <2>5, <2>10, DuelFollows
<1> QED BY <1>1, <1>9, <1>10

LEMMA StartDuels ==
    ASSUME Inv, NEW s \in Side, StartGame(s), main' = "starting", s = starter
    PROVE  Duel'
<1> DEFINE o == Other(s)
<1>0. /\ TypeOK /\ AtSetUp /\ LinkedIsReady /\ o \in Side /\ o # s /\ Other(o) = s
      /\ Side = {s, o} /\ captain[s] \in Captains /\ captain[o] \in Captains
      /\ task \in [Side -> SUBSET Tasks]
  BY Sides, TypesAre DEF Inv, SetUpInv
<1>1. PICK a \in Captains, b \in Captains : a = captain[s] /\ b = captain[o] BY <1>0
<1>2. /\ Fresh(a) /\ Fresh(b) /\ a.fleet # {} /\ b.fleet # {} /\ Opening(s)
  BY <1>0, <1>1, StartGameIs DEF LinkedIsReady
<1>3. /\ main = "setup" /\ mail' = mail /\ starter' = starter /\ captain'[o] = b
  BY <1>0, <1>1, ScriptStep DEF SetUp
<1>4. task[s] = {} /\ task[o] = {} /\ mail[s] = <<>> /\ mail[o] = <<>>
  BY <1>0, <1>3 DEF AtSetUp
<1>p. PICK x \in Unknown(captain[s]), u \in Tasks :
        /\ captain'[s] = PlanNextShot(captain[s], x)
        /\ u.does = "launch" /\ u.id = captain[s].fired + 1 /\ u.cell = x
        /\ u.trigger = "opening"
        /\ task' = [task EXCEPT ![s] = task[s] \cup {u}]
  BY <1>2 DEF Opening
<1>5. /\ x \in Unknown(a) /\ captain'[s] = PlanNextShot(a, x)
      /\ u.does = "launch" /\ u.id = a.fired + 1 /\ u.cell = x /\ u.trigger = "opening"
      /\ task' = [task EXCEPT ![s] = task[s] \cup {u}]
  BY <1>1, <1>p
<1>6. /\ Settled(a, b) /\ Settled(b, a) /\ Sound(a) /\ Sound(b)
      /\ Cardinality(Resolved(a)) = 0 /\ Cardinality(Resolved(b)) = 0
  BY <1>2, FreshIs
<1>7. PICK e : e = PlanNextShot(a, x) OBVIOUS
<1>8. Aiming(e, b, a.fired + 1, x) /\ SameBoard(a, e) /\ SameEnd(a, e)
  BY <1>5, <1>6, <1>7, AimIs
<1>9. captain'[s] = e /\ task'[s] = {u} /\ task'[o] = {} BY <1>0, <1>4, <1>5, <1>7
<1>10. Sound(e) BY <1>6, <1>8, SoundSame
<1>11. Settled(b, e)
  <2>1. SameChart(b, b) BY DEF SameChart
  <2> QED BY <1>6, <1>8, <2>1, SettledSame
<1>12. Told(s)' BY <1>3, <1>4, <1>9, <1>11 DEF Told
<1>13. Due(s)'
  <2>1. Resolved(e) = Resolved(a) /\ ~e.over /\ ~e.won /\ ~b.over /\ ~b.won
    BY <1>2, <1>8 DEF SameBoard, SameEnd, Resolved, Fresh
  <2> QED BY <1>0, <1>3, <1>6, <1>9, <2>1 DEF Due
<1>14. Aiming(e, b, u.id, u.cell) BY <1>5, <1>8
<1>15. Launching(s)'
  BY <1>3, <1>4, <1>5, <1>9, <1>12, <1>13, <1>14 DEF Launching
<1> QED BY <1>0, <1>3, <1>6, <1>9, <1>10, <1>15, DuelFollows

LEMMA DuelStep == Inv /\ [Next]_vars => Duel'
<1> SUFFICES ASSUME Inv, [Next]_vars PROVE Duel'
  OBVIOUS
<1>0. TypeOK /\ AtSetUp /\ WhereLinked /\ Duel BY DEF Inv, SetUpInv
<1>1. CASE UNCHANGED <<main, starter, captain, task, mail>>
  <2>1. CASE Linked' /\ main # "setup" BY <1>0, <1>1, <2>1, DuelFrame
  <2>2. CASE ~(Linked' /\ main # "setup") BY <1>1, <2>2 DEF Duel
  <2> QED BY <2>1, <2>2
<1>2. ASSUME NEW s \in Side, SetUp(s) PROVE Duel'
  <2>1. CASE main' = "setup" BY <2>1 DEF Duel
  <2>2. CASE StartGame(s) /\ main' = "starting" /\ s = starter BY <2>2, StartDuels
  <2> QED BY <1>0, <1>2, <2>1, <2>2, ScriptStep
<1>3. CASE Fatal
  <2>1. ~Linked' BY <1>0, <1>3, FatalIs DEF Linked, Side
  <2> QED BY <2>1 DEF Duel
<1>4. CASE Observe
  <2>1. CASE Linked' BY <1>0, <1>4, <2>1, ObserveIsRemote, DuelFrame
  <2> QED BY <2>1 DEF Duel
<1>5. CASE Return
  <2>1. CASE Detach
    <3>1. CASE Linked' BY <1>0, <1>5, <2>1, <3>1, DuelFrame, ReturnIs DEF Detach
    <3> QED BY <3>1 DEF Duel
  <2>2. ASSUME NEW s \in Side, NEW from, NEW to, Close(s, from, to) PROVE Duel'
    <3>1. ~Linked' BY <1>0, <2>2, CloseIs DEF Linked
    <3> QED BY <3>1 DEF Duel
  <2>3. CASE \/ Reap("blue", "joinBlue", "destroyRed") \/ Reap("red", "joinRed", "destroyLog")
             \/ main = "destroyLog" /\ captain' = captain
    <3>1. ~Linked /\ captain' = captain BY <1>0, <2>3 DEF WhereLinked, Reap, Linked, Side
    <3>2. ~Linked' BY <3>1 DEF Linked
    <3> QED BY <3>2 DEF Duel
  <2>4. "blue" \in Side /\ "red" \in Side BY DEF Side
  <2> QED BY <1>0, <1>5, <2>1, <2>2, <2>3, <2>4, ReturnIs
<1>6. ASSUME NEW s \in Side, Processing(s), main # "setup" PROVE Duel'
  <2>1. Linked' <=> Linked BY <1>0, <1>6, ProcessingKeeps DEF Linked
  <2>2. CASE ~Linked BY <2>1, <2>2 DEF Duel
  <2>3. CASE Linked
    BY <1>6, <2>3, HearFireDuels, HearReplyDuels, RefuseShotNot, TakeShotDuels, LaunchDuels
    DEF Processing
  <2> QED BY <2>2, <2>3
<1> QED BY <1>1, <1>2, <1>3, <1>4, <1>5, <1>6, Steps, DeliveryIs

-----------------------------------------------------------------------------
(* After the shutdown of blue *)

Fires(m) == {i \in 1 .. Len(m) : m[i].stage = "fire"}

\* n is m without its first
Rest(m, n) == /\ n \in Seq(Volleys) /\ Len(n) = Len(m) - 1
              /\ \A i \in 1 .. Len(n) : i + 1 \in 1 .. Len(m) /\ n[i] = m[i + 1]
              /\ Fires(n) = {i \in 1 .. Len(n) : i + 1 \in Fires(m)}

LEMMA FiresOfTail ==
    ASSUME NEW m \in Seq(Volleys), m # <<>>, NEW n, n = Tail(m)
    PROVE  Rest(m, n)
<1>1. n \in Seq(Volleys) /\ Len(n) = Len(m) - 1 OBVIOUS
<1>2. ASSUME NEW i \in 1 .. Len(n) PROVE i + 1 \in 1 .. Len(m) /\ n[i] = m[i + 1]
  BY <1>1
<1> QED BY <1>1, <1>2 DEF Fires, Rest

LEMMA OneFireFirst ==
    ASSUME NEW m \in Seq(Volleys), m # <<>>, m[1].stage = "fire", NEW i, Fires(m) = {i}
    PROVE  Fires(Tail(m)) = {}
<1>1. Len(m) \in Nat \ {0} OBVIOUS
<1>2. 1 \in Fires(m) BY <1>1 DEF Fires
<1>3. Fires(m) = {1} BY <1>2
<1>4. PICK n : n = Tail(m) OBVIOUS
<1>5. Len(n) = Len(m) - 1 /\ Fires(n) = {j \in 1 .. Len(n) : j + 1 \in Fires(m)}
  BY <1>4, FiresOfTail DEF Rest
<1>6. \A j \in 1 .. Len(n) : j + 1 # 1 BY <1>1, <1>5
<1> QED BY <1>3, <1>4, <1>5, <1>6

LEMMA OneFireLater ==
    ASSUME NEW m \in Seq(Volleys), m # <<>>, m[1].stage = "reply", NEW i, Fires(m) = {i}
    PROVE  Fires(Tail(m)) = {i - 1}
<1>1. Len(m) \in Nat \ {0} OBVIOUS
<1>2. 1 \notin Fires(m) BY DEF Fires
<1>3. i \in 1 .. Len(m) /\ i # 1 BY <1>2 DEF Fires
<1>4. PICK n : n = Tail(m) OBVIOUS
<1>5. /\ Len(n) = Len(m) - 1 /\ Fires(n) = {j \in 1 .. Len(n) : j + 1 \in Fires(m)}
  BY <1>4, FiresOfTail DEF Rest
<1>6. i - 1 \in 1 .. Len(n) /\ (i - 1) + 1 = i BY <1>1, <1>3, <1>5
<1>7. \A j \in 1 .. Len(n) : j + 1 = i => j = i - 1 BY <1>1, <1>5, <1>6
<1> QED BY <1>4, <1>5, <1>6, <1>7

\* n is m with f at its end, the only shot in it
Loaded(m, f, n) == /\ Fires(n) = {Len(m) + 1} /\ Len(n) = Len(m) + 1 /\ n[Len(m) + 1] = f
                   /\ \A i \in 1 .. Len(m) : n[i] = m[i]

LEMMA OneFireMore ==
    ASSUME NEW m \in Seq(Volleys), Fires(m) = {}, NEW f \in Volleys, f.stage = "fire",
           NEW n, n = Append(m, f)
    PROVE  Loaded(m, f, n)
<1>1. Len(m) \in Nat /\ Len(n) = Len(m) + 1 /\ n[Len(m) + 1] = f OBVIOUS
<1>2. \A i \in 1 .. Len(m) : n[i] = m[i] OBVIOUS
<1>3. \A i \in 1 .. Len(n) : i # Len(m) + 1 => i \in 1 .. Len(m) BY <1>1
<1>4. Len(m) + 1 \in 1 .. Len(n) BY <1>1
<1> QED BY <1>1, <1>2, <1>3, <1>4 DEF Fires, Loaded

LEMMA LeftIs == LeftFlying = Fires(mail["blue"])
BY DEF LeftFlying, Stage, Fires

\* What a step that leaves the duel as it is leaves of the last shot
LEMMA LastShotSame ==
    ASSUME Due("blue"), \A s \in Side : Sound(captain[s]), starter' = starter,
           captain'["blue"] = captain["blue"],
           SameBoard(captain["red"], captain'["red"]), SameEnd(captain["red"], captain'["red"])
    PROVE  Due("blue")' /\ \A s \in Side : Sound(captain'[s])
<1>1. "red" \in Side /\ "blue" \in Side /\ Other("red") = "blue" BY DEF Side, Other
<1>2. Due("blue")' BY <1>1, DueSame
<1>3. Sound(captain'["red"]) BY <1>1, SoundSame
<1> QED BY <1>1, <1>2, <1>3 DEF Side

LEMMA FewFires ==
    ASSUME NEW m \in Seq(Volleys)
    PROVE  /\ m = <<>> => Fires(m) = {}
           /\ Len(m) = 1 /\ m[1].stage = "reply" => Fires(m) = {}
           /\ Len(m) = 1 /\ m[1].stage = "fire" => Fires(m) = {1}
           /\ Len(m) = 2 /\ m[1].stage = "reply" /\ m[2].stage = "fire" => Fires(m) = {2}
<1>1. ASSUME m = <<>> PROVE Fires(m) = {}
  <2>1. Len(m) = 0 BY <1>1
  <2> QED BY <2>1 DEF Fires
<1>2. Len(m) = 1 => 1 .. Len(m) = {1} OBVIOUS
<1>3. Len(m) = 2 => 1 .. Len(m) = {1, 2} OBVIOUS
<1> QED BY <1>1, <1>2, <1>3 DEF Fires

LEMMA CloseAdrift ==
    ASSUME Inv, Close("blue", "destroyBlue", "joinBlue"), starter' = starter
    PROVE  Adrift'
<1> DEFINE m == mail["blue"]
           a == captain["blue"]
           b == captain["red"]
<1>0. /\ TypeOK /\ WhereLinked /\ "blue" \in Side /\ "red" \in Side
      /\ Other("blue") = "red" /\ Other("red") = "blue" /\ m \in Seq(Volleys)
  BY TypesAre DEF Inv, SetUpInv, Side, Other
<1>1. /\ captain'["red"] = b /\ mail'["red"] = <<>> /\ mail'["blue"] = m /\ task' = task
      /\ SameBoard(a, captain'["blue"]) /\ main = "destroyBlue"
      /\ ~captain'["blue"].over /\ ~captain'["blue"].won
  BY <1>0, CloseIs DEF Close
<1>2. CASE ~captain'["red"].linked BY <1>2 DEF Adrift
<1>3. CASE captain'["red"].linked
  <2>1. Linked BY <1>0, <1>1, <1>3 DEF WhereLinked
  <2>2. (\A s \in Side : Sound(captain[s])) /\ (\E q \in Side : Shape(q))
    BY <1>1, <2>1, InDuel
  <2>3. Shape("red") \/ Shape("blue") BY <2>2 DEF Side
  <2>4. UNCHANGED <<LeftAsleep, LeftFlying, LeftLanding>>
    BY <1>1 DEF LeftAsleep, LeftFlying, LeftLanding, Stage
  <2>5. CASE Spent
    <3>1. Spent' BY <2>4, <2>5 DEF Spent
    <3> QED BY <1>1, <3>1 DEF Adrift
  <2>6. CASE Due("blue") /\ OneLeft
               /\ \A i \in 1 .. Len(m) : m[i].stage = "reply" => ~m[i].over
    <3>1. SameEnd(a, captain'["blue"])
      <4>1. ~a.over /\ ~a.won /\ a \in Captains BY <1>0, <2>6, TypesAre DEF Due
      <4>2. captain'["blue"] \in Captains BY <1>0, CloseIs
      <4> QED BY <1>1, <4>1, <4>2 DEF SameEnd, Captains
    <3>2. Due("blue")' BY <1>0, <1>1, <2>6, <3>1, DueSame
    <3>3. Sound(captain'["blue"]) BY <1>0, <1>1, <2>2, <3>1, SoundSame
    <3>4. \A s \in Side : Sound(captain'[s]) BY <1>0, <1>1, <2>2, <3>3 DEF Side
    <3>5. OneLeft' BY <2>4, <2>6 DEF OneLeft
    <3> QED BY <1>1, <2>6, <3>2, <3>4, <3>5 DEF Adrift, LastShot
  <2>7. ASSUME Shape("red") PROVE Spent
    <3>1. CASE Launching("red")
      BY <1>0, <3>1, FewFires, LeftIs DEF Launching, Spent, LeftAsleep, LeftLanding
    <3>2. CASE Flying("red")
      BY <1>0, <3>2, FewFires, LeftIs DEF Flying, Spent, LeftAsleep, LeftLanding
    <3>3. CASE Landing("red")
      BY <1>0, <3>3, FewFires, LeftIs DEF Landing, Spent, LeftAsleep, LeftLanding
    <3>4. CASE Beaten("red")
      BY <1>0, <3>4, FewFires, LeftIs DEF Beaten, Spent, LeftAsleep, LeftLanding
    <3> QED BY <2>7, <3>1, <3>2, <3>3, <3>4 DEF Shape
  <2>8. ASSUME Shape("blue")
        PROVE  \/ Spent
               \/ /\ Due("blue") /\ OneLeft
                  /\ \A i \in 1 .. Len(m) : m[i].stage = "reply" => ~m[i].over
    <3>1. CASE Launching("blue")
      <4>1. LeftLanding = {} BY <1>0, <3>1 DEF Launching, LeftLanding
      <4>2. \E t \in LeftAsleep : LeftAsleep = {t} BY <3>1 DEF Launching, LeftAsleep
      <4>3. LeftFlying = {}
        BY <1>0, <3>1, FewFires, LeftIs DEF Launching, Told, Answered
      <4>4. \A i \in 1 .. Len(m) : ~m[i].over
        <5>1. CASE m = <<>> BY <1>0, <5>1, Boxes
        <5>2. CASE Len(m) = 1 /\ Answered(b, a, m[1])
          <6>1. ~a.over BY <1>0, <3>1 DEF Launching, Due
          <6> QED BY <5>2, <6>1 DEF Answered
        <5> QED BY <1>0, <3>1, <5>1, <5>2 DEF Launching, Told
      <4> QED BY <3>1, <4>1, <4>2, <4>3, <4>4 DEF OneLeft, Launching
    <3>2. CASE Flying("blue")
      <4>1. LeftAsleep = {} /\ LeftLanding = {} /\ Due("blue")
        BY <1>0, <3>2 DEF Flying, LeftAsleep, LeftLanding
      <4>2. \/ Len(m) = 1 /\ m[1].stage = "fire"
            \/ /\ Len(m) = 2 /\ m[1].stage = "reply" /\ m[2].stage = "fire" /\ ~m[1].over
        <5>1. ~a.over BY <1>0, <3>2 DEF Flying, Due
        <5> QED BY <1>0, <3>2, <5>1 DEF Flying, Answered
      <4>3. \E i \in LeftFlying : LeftFlying = {i} BY <1>0, <4>2, FewFires, LeftIs
      <4>4. \A i \in 1 .. Len(m) : m[i].stage = "reply" => ~m[i].over BY <4>2
      <4> QED BY <4>1, <4>3, <4>4 DEF OneLeft
    <3>3. CASE Landing("blue")
      <4>1. Due("blue") /\ m = <<>> /\ LeftAsleep = {}
        BY <1>0, <3>3 DEF Landing, LeftAsleep
      <4>2. LeftFlying = {} BY <1>0, <4>1, FewFires, LeftIs
      <4>3. \E t \in LeftLanding : LeftLanding = {t}
        BY <1>0, <3>3 DEF Landing, LeftLanding
      <4>4. Len(m) = 0 BY <1>0, <4>1, Boxes
      <4> QED BY <4>1, <4>2, <4>3, <4>4 DEF OneLeft
    <3>4. CASE Beaten("blue")
      BY <1>0, <3>4, FewFires, LeftIs DEF Beaten, Answered, Spent, LeftAsleep, LeftLanding
    <3> QED BY <2>8, <3>1, <3>2, <3>3, <3>4 DEF Shape
  <2> QED BY <2>3, <2>5, <2>6, <2>7, <2>8
<1> QED BY <1>2, <1>3

LEMMA AdriftIs ==
    ASSUME Inv, main \in {"joinBlue", "destroyRed"}, captain["red"].linked
    PROVE  /\ TypeOK /\ "blue" \in Side /\ "red" \in Side
           /\ Other("blue") = "red" /\ Other("red") = "blue"
           /\ ~captain["blue"].linked /\ captain["red"] \in Captains
           /\ mail["red"] = <<>> /\ mail["blue"] \in Seq(Volleys)
           /\ mail \in [Side -> Seq(Volleys)] /\ task \in [Side -> SUBSET Tasks]
           /\ Spent \/ LastShot
<1>1. TypeOK /\ WhereLinked /\ Adrift BY DEF Inv, SetUpInv
<1>2. "blue" \in Side /\ "red" \in Side /\ Other("blue") = "red" /\ Other("red") = "blue"
  BY DEF Side, Other
<1>3. ~captain["blue"].linked BY <1>1 DEF WhereLinked
<1>4. mail["red"] = <<>> /\ (Spent \/ LastShot) BY <1>1 DEF Adrift
<1> QED BY <1>1, <1>2, <1>3, <1>4, TypesAre

\* A step that leaves the last shot where it is
LEMMA AdriftSame ==
    ASSUME Spent \/ LastShot, UNCHANGED <<captain, starter>>, mail' = mail,
           LeftAsleep' = LeftAsleep, LeftLanding' = LeftLanding
    PROVE  Spent' \/ LastShot'
<1>1. LeftFlying' = LeftFlying BY DEF LeftFlying, Stage
<1>2. CASE Spent BY <1>1, <1>2 DEF Spent
<1>3. CASE LastShot
  <2>1. OneLeft' BY <1>1, <1>3 DEF LastShot, OneLeft
  <2>2. Due("blue")' BY <1>3 DEF LastShot, Due
  <2> QED BY <1>3, <2>1, <2>2 DEF LastShot
<1> QED BY <1>2, <1>3

\* Blue, which hears nothing more, may launch its volley
LEMMA BlueAdrift ==
    ASSUME Inv, main \in {"joinBlue", "destroyRed"}, captain["red"].linked, Processing("blue"),
           main' = main
    PROVE  mail'["red"] = <<>> /\ (Spent' \/ LastShot')
<1> DEFINE m == mail["blue"]
<1>0. /\ TypeOK /\ "blue" \in Side /\ "red" \in Side
      /\ Other("blue") = "red" /\ Other("red") = "blue"
      /\ ~captain["blue"].linked /\ mail["red"] = <<>> /\ m \in Seq(Volleys)
      /\ task \in [Side -> SUBSET Tasks]
      /\ Spent \/ LastShot
  BY AdriftIs
<1>1. ~HearFire("blue") /\ ~HearReply("blue") BY <1>0 DEF HearFire, HearReply
<1>2. ~TakeShot("blue") BY <1>0 DEF TakeShot, Playing
<1>3. CASE RefuseShot("blue")
  <2>1. PICK t \in task["blue"] : /\ t.does = "receive"
                                  /\ task' = [task EXCEPT !["blue"] = task["blue"] \ {t}]
    BY <1>0, <1>3, RefuseShotIs
  <2>2. UNCHANGED <<captain, mail, starter>> BY <1>0, <1>3, RefuseShotIs
  <2>3. task'["blue"] = task["blue"] \ {t} /\ task'["red"] = task["red"] BY <1>0, <2>1
  <2>4. LeftAsleep' = LeftAsleep /\ LeftLanding' = LeftLanding
    BY <2>1, <2>3 DEF LeftAsleep, LeftLanding
  <2> QED BY <1>0, <2>2, <2>4, AdriftSame
<1>4. CASE Launch("blue")
  <2>a. PICK t \in task["blue"] :
          /\ t \in Tasks /\ t.does = "launch"
          /\ task' = [task EXCEPT !["blue"] = task["blue"] \ {t}]
          /\ mail'[Other("blue")] = mail[Other("blue")]
          /\ mail'["blue"] = IF captain[Other("blue")].linked THEN Append(m, Fire(t)) ELSE m
    BY <1>0, <1>4, LaunchIs
  <2>1. /\ t \in Tasks /\ t.does = "launch"
        /\ task' = [task EXCEPT !["blue"] = task["blue"] \ {t}]
        /\ mail'["red"] = mail["red"] /\ mail'["blue"] = Append(m, Fire(t))
    BY <1>0, <2>a
  <2>2. UNCHANGED <<captain, starter>> BY <1>0, <1>4, LaunchIs
  <2>3. t \in LeftAsleep BY <2>1 DEF LeftAsleep
  <2>4. /\ LastShot /\ Due("blue") /\ LeftAsleep = {t} /\ LeftFlying = {} /\ LeftLanding = {}
        /\ \A s \in Side : Sound(captain[s])
        /\ \A i \in 1 .. Len(m) : m[i].stage = "reply" => ~m[i].over
    BY <1>0, <2>3 DEF Spent, LastShot, OneLeft
  <2>5. task'["blue"] = task["blue"] \ {t} /\ task'["red"] = task["red"] BY <1>0, <2>1
  <2>6. LeftAsleep' = {} /\ LeftLanding' = {} BY <2>4, <2>5 DEF LeftAsleep, LeftLanding
  <2>7. PICK f \in Volleys : f = Fire(t) /\ f.stage = "fire" BY <2>1, FireIs
  <2>8. PICK n : n = Append(m, f) OBVIOUS
  <2>9. Fires(m) = {} BY <2>4, LeftIs
  <2>10. /\ Fires(n) = {Len(m) + 1} /\ Len(n) = Len(m) + 1 /\ n[Len(m) + 1] = f
         /\ \A i \in 1 .. Len(m) : n[i] = m[i]
    <3>1. PICK k \in Seq(Volleys) : k = m BY <1>0
    <3>2. Fires(k) = {} /\ n = Append(k, f) BY <2>8, <2>9, <3>1
    <3>3. Loaded(k, f, n) BY <2>7, <3>2, OneFireMore
    <3> QED BY <3>1, <3>3 DEF Loaded
  <2>11. mail'["blue"] = n BY <2>1, <2>7, <2>8
  <2>12. LeftFlying' = {Len(m) + 1}
    <3>1. LeftFlying' = Fires(mail'["blue"]) BY DEF LeftFlying, Stage, Fires
    <3> QED BY <2>10, <2>11, <3>1
  <2>13. OneLeft' BY <2>6, <2>12 DEF OneLeft
  <2>14. Due("blue")' BY <2>2, <2>4 DEF Due
  <2>15. \A i \in 1 .. Len(n) : n[i].stage = "reply" => ~n[i].over
    <3>1. ASSUME NEW i \in 1 .. Len(n), i # Len(m) + 1 PROVE i \in 1 .. Len(m)
      <4>1. Len(m) \in Nat BY <1>0
      <4> QED BY <2>10, <3>1, <4>1
    <3> QED BY <2>4, <2>7, <2>10, <3>1
  <2>16. LastShot' BY <2>2, <2>4, <2>11, <2>13, <2>14, <2>15 DEF LastShot
  <2> QED BY <1>0, <2>1, <2>16
<1> QED BY <1>1, <1>2, <1>3, <1>4 DEF Processing

\* Red, which blue no longer hears, may hear of it, hear a reply, and take or refuse the shot
LEMMA RedHearsAdrift ==
    ASSUME Inv, main \in {"joinBlue", "destroyRed"}, captain["red"].linked,
           HearFire("red") \/ HearReply("red")
    PROVE  mail'["red"] = <<>> /\ (Spent' \/ LastShot')
<1>0. /\ TypeOK /\ "blue" \in Side /\ "red" \in Side
      /\ Other("blue") = "red" /\ Other("red") = "blue"
      /\ captain["red"] \in Captains /\ mail["red"] = <<>> /\ mail["blue"] \in Seq(Volleys)
      /\ mail \in [Side -> Seq(Volleys)] /\ task \in [Side -> SUBSET Tasks]
      /\ Spent \/ LastShot
  BY AdriftIs
<1>a. PICK m \in Seq(Volleys) : m = mail["blue"] BY <1>0
<1>b. PICK n : n = Tail(m) OBVIOUS
<1>1. m = mail["blue"] /\ n = Tail(m) BY <1>a, <1>b
<1>2. /\ m # <<>> /\ mail' = [mail EXCEPT !["blue"] = n]
      /\ captain'["blue"] = captain["blue"] /\ starter' = starter
  <2>1. CASE HearFire("red") BY <1>0, <1>1, <2>1, HearFireIs
  <2>2. CASE HearReply("red") BY <1>0, <1>1, <2>2, HearReplyIs
  <2> QED BY <2>1, <2>2
<1>3. mail'["red"] = <<>> /\ mail'["blue"] = n BY <1>0, <1>2
<1>4. LeftFlying = Fires(m) /\ LeftFlying' = Fires(n)
  <2>1. LeftFlying' = Fires(mail'["blue"]) BY DEF LeftFlying, Stage, Fires
  <2> QED BY <1>1, <1>3, <2>1, LeftIs
<1>5. /\ n \in Seq(Volleys) /\ Len(n) = Len(m) - 1
      /\ \A i \in 1 .. Len(n) : i + 1 \in 1 .. Len(m) /\ n[i] = m[i + 1]
      /\ Fires(n) = {i \in 1 .. Len(n) : i + 1 \in Fires(m)}
  <2>1. Rest(m, n) BY <1>1, <1>2, FiresOfTail
  <2> QED BY <2>1 DEF Rest
<1>6. ASSUME LastShot
      PROVE  \A i \in 1 .. Len(n) : n[i].stage = "reply" => ~n[i].over
  BY <1>1, <1>5, <1>6 DEF LastShot
<1>7. CASE HearFire("red")
  <2>1. /\ m[1].stage = "fire" /\ Alike(captain["red"], captain'["red"])
        /\ ~captain["red"].over =>
             \E t \in Tasks : t.does = "receive" /\ task' = [task EXCEPT !["red"] = task["red"] \cup {t}]
    <3>1. TypeOK /\ "red" \in Side /\ Other("red") = "blue" /\ m = mail["blue"]
      BY <1>0, <1>1
    <3>2. m[1].stage = "fire" /\ Alike(captain["red"], captain'["red"])
      BY <1>7, <3>1, HearFireIs
    <3>3. ASSUME ~captain["red"].over
          PROVE  \E t \in Tasks : t.does = "receive" /\ task' = [task EXCEPT !["red"] = task["red"] \cup {t}]
      BY <1>7, <3>1, <3>3, HearFireIs
    <3> QED BY <3>2, <3>3
  <2>2. 1 \in Fires(m)
    <3>1. Len(m) \in Nat \ {0} BY <1>1, <1>2
    <3> QED BY <2>1, <3>1 DEF Fires
  <2>3. /\ LastShot /\ Due("blue") /\ LeftAsleep = {} /\ LeftLanding = {}
        /\ \A s \in Side : Sound(captain[s])
    BY <1>0, <1>4, <2>2 DEF Spent, LastShot, OneLeft
  <2>4. PICK i : Fires(m) = {i} BY <1>4, <2>2, <2>3 DEF LastShot, OneLeft
  <2>5. Fires(n) = {} BY <1>1, <1>2, <2>1, <2>4, OneFireFirst
  <2>6. ~captain["red"].over BY <1>0, <2>3 DEF Due
  <2>7. PICK t \in Tasks : t.does = "receive" /\ task' = [task EXCEPT !["red"] = task["red"] \cup {t}]
    BY <2>1, <2>6
  <2>8. task'["red"] = task["red"] \cup {t} /\ task'["blue"] = task["blue"] BY <1>0, <2>7
  <2>9. LeftLanding' = {t} /\ LeftAsleep' = {}
    BY <2>3, <2>7, <2>8 DEF LeftLanding, LeftAsleep
  <2>10. OneLeft' BY <1>4, <2>5, <2>9 DEF OneLeft
  <2>11. Due("blue")' /\ \A s \in Side : Sound(captain'[s])
    BY <1>2, <2>1, <2>3, LastShotSame DEF Alike
  <2> QED BY <1>3, <1>6, <2>3, <2>10, <2>11 DEF LastShot
<1>8. CASE HearReply("red")
  <2>1. PICK c \in Captains, v \in Volleys : c = captain["red"] /\ v = m[1]
    BY <1>0, <1>1, <1>8, HearReplyIs
  <2>2. /\ v.stage = "reply" /\ task' = task
        /\ captain'["red"] = IF ~c.over /\ c.pending = [id |-> v.id, cell |-> v.cell]
                               THEN ObserveOutcome(c, v) ELSE c
    BY <1>0, <1>1, <1>8, <2>1, HearReplyIs
  <2>3. UNCHANGED <<LeftAsleep, LeftLanding>> BY <2>2 DEF LeftAsleep, LeftLanding
  <2>4. CASE Spent
    <3>1. Fires(n) = {} BY <1>4, <1>5, <2>4 DEF Spent
    <3> QED BY <1>3, <1>4, <2>3, <2>4, <3>1 DEF Spent
  <2>5. CASE LastShot
    <3>1. ~v.over
      <4>1. 1 \in 1 .. Len(m) BY <1>1, <1>2
      <4> QED BY <1>1, <2>1, <2>2, <2>5, <4>1 DEF LastShot
    <3>2. PICK d : d = ObserveOutcome(c, v) OBVIOUS
    <3>3. SameBoard(c, d) /\ SameEnd(c, d)
      <4>1. /\ d.over = (c.over \/ v.over) /\ d.won = (c.won \/ v.over)
            /\ d.fleet = c.fleet /\ d.hit = c.hit /\ d.miss = c.miss
        <5>1. Informed(c, v, d) BY <3>2, ObserveIs
        <5> QED BY <5>1 DEF Informed
      <4>2. c.over \in BOOLEAN /\ c.won \in BOOLEAN BY DEF Captains
      <4>3. d.over = c.over /\ d.won = c.won BY <3>1, <4>1, <4>2
      <4> QED BY <4>1, <4>3 DEF SameBoard, SameEnd
    <3>4. SameBoard(captain["red"], captain'["red"]) /\ SameEnd(captain["red"], captain'["red"])
      BY <2>1, <2>2, <3>2, <3>3 DEF SameBoard, SameEnd
    <3>5. Due("blue") /\ OneLeft /\ \A s \in Side : Sound(captain[s]) BY <2>5 DEF LastShot
    <3>6. Due("blue")' /\ \A s \in Side : Sound(captain'[s])
      BY <1>2, <3>4, <3>5, LastShotSame
    <3>7. OneLeft'
      <4>1. CASE Fires(m) = {}
        <5>1. Fires(n) = {} BY <1>5, <4>1
        <5> QED BY <1>4, <2>3, <3>5, <4>1, <5>1 DEF OneLeft
      <4>2. ASSUME NEW i, Fires(m) = {i} PROVE OneLeft'
        <5>1. Fires(n) = {i - 1} BY <1>1, <1>2, <2>1, <2>2, <4>2, OneFireLater
        <5>2. LeftAsleep = {} /\ LeftLanding = {} BY <1>4, <3>5, <4>2 DEF OneLeft
        <5> QED BY <1>4, <2>3, <5>1, <5>2 DEF OneLeft
      <4> QED BY <1>4, <3>5, <4>1, <4>2 DEF OneLeft
    <3> QED BY <1>3, <1>6, <2>5, <3>6, <3>7 DEF LastShot
  <2> QED BY <1>0, <2>4, <2>5
<1> QED BY <1>7, <1>8

LEMMA RedAdrift ==
    ASSUME Inv, main \in {"joinBlue", "destroyRed"}, captain["red"].linked, Processing("red"),
           main' = main
    PROVE  mail'["red"] = <<>> /\ (Spent' \/ LastShot')
<1>0. /\ TypeOK /\ "blue" \in Side /\ "red" \in Side
      /\ Other("blue") = "red" /\ Other("red") = "blue"
      /\ ~captain["blue"].linked /\ mail["red"] = <<>>
      /\ mail \in [Side -> Seq(Volleys)] /\ task \in [Side -> SUBSET Tasks]
      /\ Spent \/ LastShot
  BY AdriftIs
<1>1. CASE HearFire("red") \/ HearReply("red") BY <1>1, RedHearsAdrift
<1>2. CASE RefuseShot("red")
  <2>1. PICK t \in task["red"] : /\ t.does = "receive"
                                 /\ task' = [task EXCEPT !["red"] = task["red"] \ {t}]
    BY <1>0, <1>2, RefuseShotIs
  <2>2. mail' = mail BY <1>0, <1>2, RefuseShotIs
  <2>3. task'["red"] = task["red"] \ {t} /\ task'["blue"] = task["blue"] BY <1>0, <2>1
  <2>4. LeftLanding = {t} /\ LeftAsleep = {} /\ LeftFlying = {}
    <3>1. t \in LeftLanding BY <2>1 DEF LeftLanding
    <3> QED BY <1>0, <3>1 DEF Spent, LastShot, OneLeft
  <2>5. LeftLanding' = {} /\ LeftAsleep' = {} /\ LeftFlying' = {}
    BY <2>2, <2>3, <2>4 DEF LeftLanding, LeftAsleep, LeftFlying, Stage
  <2> QED BY <1>0, <2>2, <2>5 DEF Spent
<1>3. CASE TakeShot("red")
  <2>1. PICK t, d : Shot("red", t, d) /\ (Stays("red", t, d) \/ Counters("red", t, d))
    BY <1>0, <1>3, TakeShotIs
  <2>2. /\ t \in task["red"] /\ t.does = "receive" /\ task'["blue"] = task["blue"]
        /\ mail'["blue"] = mail["blue"] /\ mail'["red"] = <<>>
    BY <1>0, <2>1 DEF Shot
  <2>3. LeftLanding = {t} /\ LeftAsleep = {} /\ LeftFlying = {}
    <3>1. t \in LeftLanding BY <2>2 DEF LeftLanding
    <3> QED BY <1>0, <3>1 DEF Spent, LastShot, OneLeft
  <2>4. \A u \in task'["red"] : u.does = "receive" => u \in task["red"] \ {t}
    BY <2>1 DEF Stays, Counters
  <2>5. LeftLanding' = {} /\ LeftAsleep' = {} /\ LeftFlying' = {}
    BY <2>2, <2>3, <2>4 DEF LeftLanding, LeftAsleep, LeftFlying, Stage
  <2> QED BY <2>2, <2>5 DEF Spent
<1>4. CASE Launch("red")
  <2>1. PICK t \in task["red"] :
          /\ t.does = "launch" /\ task' = [task EXCEPT !["red"] = task["red"] \ {t}]
          /\ mail'[Other("red")] = mail[Other("red")]
          /\ mail'["red"] = IF captain[Other("red")].linked THEN Append(mail["red"], Fire(t))
                                                            ELSE mail["red"]
    BY <1>0, <1>4, LaunchIs
  <2>2. UNCHANGED <<captain, starter>> BY <1>0, <1>4, LaunchIs
  <2>3. mail'["red"] = <<>> /\ mail'["blue"] = mail["blue"] BY <1>0, <2>1
  <2>4. task'["red"] = task["red"] \ {t} /\ task'["blue"] = task["blue"] BY <1>0, <2>1
  <2>5. LeftAsleep' = LeftAsleep /\ LeftLanding' = LeftLanding /\ LeftFlying' = LeftFlying
    BY <2>1, <2>3, <2>4 DEF LeftAsleep, LeftLanding, LeftFlying, Stage
  <2>6. CASE Spent BY <2>3, <2>5, <2>6 DEF Spent
  <2>7. CASE LastShot
    <3>1. OneLeft' BY <2>5, <2>7 DEF LastShot, OneLeft
    <3>2. Due("blue")' BY <2>2, <2>7 DEF LastShot, Due
    <3> QED BY <2>2, <2>3, <2>7, <3>1, <3>2 DEF LastShot
  <2> QED BY <1>0, <2>6, <2>7
<1> QED BY <1>1, <1>2, <1>3, <1>4 DEF Processing

LEMMA AdriftStep == Inv /\ [Next]_vars => Adrift'
<1> SUFFICES ASSUME Inv, [Next]_vars, main' \in {"joinBlue", "destroyRed"}, captain'["red"].linked
             PROVE  mail'["red"] = <<>> /\ (Spent' \/ LastShot')
  BY DEF Adrift
<1>0. /\ TypeOK /\ AtSetUp /\ WhereLinked /\ Adrift /\ "blue" \in Side /\ "red" \in Side
      /\ Other("blue") = "red" /\ Other("red") = "blue"
  BY DEF Inv, SetUpInv, Side, Other
<1>1. CASE UNCHANGED <<main, starter, captain, task, mail>>
  <2>1. mail["red"] = <<>> /\ (Spent \/ LastShot) BY <1>0, <1>1 DEF Adrift
  <2>2. LeftAsleep' = LeftAsleep /\ LeftLanding' = LeftLanding
    BY <1>1 DEF LeftAsleep, LeftLanding
  <2> QED BY <1>1, <2>1, <2>2, AdriftSame
<1>2. ASSUME NEW s \in Side, SetUp(s) PROVE FALSE
  <2>1. main' \in {"setup", "starting"} BY <1>0, <1>2, ScriptStep
  <2> QED BY <2>1
<1>3. ~Fatal BY <1>0, FatalIs
<1>4. ~Observe BY <1>0, ObserveIsRemote
<1>5. CASE Return
  <2>1. starter' = starter BY <1>0, <1>5, ReturnIs
  <2>2. CASE Close("blue", "destroyBlue", "joinBlue")
    <3>1. Adrift' BY <2>1, <2>2, CloseAdrift
    <3> QED BY <3>1 DEF Adrift
  <2>3. CASE Reap("blue", "joinBlue", "destroyRed")
    <3>1. UNCHANGED <<captain, mail>> /\ main = "joinBlue" BY <2>3 DEF Reap
    <3>2. task'["blue"] = {} /\ task'["red"] = task["red"] BY <1>0, <2>3, ReapIs
    <3>3. mail["red"] = <<>> /\ (Spent \/ LastShot) BY <1>0, <3>1 DEF Adrift
    <3>4. LeftAsleep' = {} /\ LeftLanding' = LeftLanding /\ LeftFlying' = LeftFlying
      BY <3>1, <3>2 DEF LeftAsleep, LeftLanding, LeftFlying, Stage
    <3>5. CASE LeftAsleep = {}
      BY <2>1, <3>1, <3>3, <3>4, <3>5, AdriftSame
    <3>6. CASE LeftAsleep # {}
      <4>1. LeftFlying = {} /\ LeftLanding = {} BY <3>3, <3>6 DEF Spent, LastShot, OneLeft
      <4> QED BY <3>1, <3>3, <3>4, <4>1 DEF Spent
    <3> QED BY <3>5, <3>6
  <2>4. main' \in {"joinBlue", "destroyRed"} =>
          Close("blue", "destroyBlue", "joinBlue") \/ Reap("blue", "joinBlue", "destroyRed")
    BY <1>0, <1>5, ReturnIs DEF Detach, Close, Reap
  <2> QED BY <2>2, <2>3, <2>4
<1>6. ASSUME NEW s \in Side, Processing(s), main # "setup"
      PROVE  mail'["red"] = <<>> /\ (Spent' \/ LastShot')
  <2>1. main' = main BY <1>0, <1>6, ProcessingKeeps
  <2>2. captain'["red"].linked = captain["red"].linked BY <1>0, <1>6, ProcessingKeeps
  <2>3. s \in {"red", "blue"} BY DEF Side
  <2> QED BY <1>6, <2>1, <2>2, <2>3, BlueAdrift, RedAdrift
<1> QED BY <1>1, <1>2, <1>3, <1>4, <1>5, <1>6, Steps

LEMMA InvStep == Inv /\ [Next]_vars => Inv'
<1> SUFFICES ASSUME Inv, [Next]_vars PROVE Inv'
  OBVIOUS
<1>1. TypeOK' BY TypesStep DEF Inv
<1>2. SetUpInv'
  BY AtSetUpStep, LinkedIsReadyStep, WhereLinkedStep, OpensStep DEF SetUpInv
<1> QED BY <1>1, <1>2, ThreadsStep, DuelStep, AdriftStep DEF Inv

LEMMA Invariant == Spec => []Inv
BY InvInit, InvStep, PTL DEF Spec

-----------------------------------------------------------------------------
(* What follows from the invariant *)

LEMMA StageIs == \A s : Stage(s, "fire") = Fires(mail[s])
BY DEF Stage, Fires

\* One turn to take
LEMMA Turns == Inv => OneBaton
<1> SUFFICES ASSUME Inv, Linked, main # "setup"
             PROVE  Cardinality(task["red"]) + Cardinality(task["blue"])
                      + Cardinality(Stage("red", "fire")) + Cardinality(Stage("blue", "fire"))
                        = IF Ended THEN 0 ELSE 1
  BY DEF OneBaton
<1>0. TypeOK BY DEF Inv
<1>1. Cardinality({}) = 0 /\ \A x : Cardinality({x}) = 1 BY FS_EmptySet, FS_Singleton
<1>2. PICK q \in Side : Shape(q) BY InDuel
<1>3. /\ Other(q) \in Side /\ Side = {q, Other(q)} /\ Other(Other(q)) = q /\ Other(q) # q
      /\ mail[q] \in Seq(Volleys) /\ mail[Other(q)] \in Seq(Volleys)
  BY <1>0, Sides, TypesAre
<1>4. \/ /\ ~Ended /\ Stage(Other(q), "fire") = {}
         /\ \/ /\ Stage(q, "fire") = {} /\ task[Other(q)] = {} /\ \E t : task[q] = {t}
            \/ /\ Stage(q, "fire") = {} /\ task[q] = {} /\ \E t : task[Other(q)] = {t}
            \/ /\ task[q] = {} /\ task[Other(q)] = {} /\ \E i : Stage(q, "fire") = {i}
      \/ /\ Ended /\ task[q] = {} /\ task[Other(q)] = {}
         /\ Stage(q, "fire") = {} /\ Stage(Other(q), "fire") = {}
  <2>1. CASE Launching(q)
    <3>1. ~Ended BY <2>1 DEF Launching, Due, Ended
    <3>2. Stage(q, "fire") = {}
      BY <1>3, <2>1, FewFires, StageIs DEF Launching, Told, Answered
    <3>3. Stage(Other(q), "fire") = {} BY <1>3, <2>1, FewFires, StageIs DEF Launching
    <3> QED BY <2>1, <3>1, <3>2, <3>3 DEF Launching
  <2>2. CASE Flying(q)
    <3>1. ~Ended BY <2>2 DEF Flying, Due, Ended
    <3>2. \E i : Stage(q, "fire") = {i}
      BY <1>3, <2>2, FewFires, StageIs DEF Flying, Answered
    <3>3. Stage(Other(q), "fire") = {} BY <1>3, <2>2, FewFires, StageIs DEF Flying
    <3> QED BY <1>3, <2>2, <3>1, <3>2, <3>3 DEF Flying
  <2>3. CASE Landing(q)
    <3>1. ~Ended BY <2>3 DEF Landing, Due, Ended
    <3>2. Stage(q, "fire") = {} /\ Stage(Other(q), "fire") = {}
      BY <1>3, <2>3, FewFires, StageIs DEF Landing
    <3> QED BY <2>3, <3>1, <3>2 DEF Landing
  <2>4. CASE Beaten(q)
    <3>1. Ended BY <2>4 DEF Beaten, Ended
    <3>2. Stage(q, "fire") = {} /\ Stage(Other(q), "fire") = {}
      BY <1>3, <2>4, FewFires, StageIs DEF Beaten, Answered
    <3> QED BY <1>3, <2>4, <3>1, <3>2 DEF Beaten
  <2> QED BY <1>2, <2>1, <2>2, <2>3, <2>4 DEF Shape
<1>5. Cardinality(task[q]) + Cardinality(task[Other(q)])
        + Cardinality(Stage(q, "fire")) + Cardinality(Stage(Other(q), "fire"))
          = IF Ended THEN 0 ELSE 1
  <2>1. PICK j, k, l, n : /\ j = Cardinality(task[q]) /\ k = Cardinality(task[Other(q)])
                          /\ l = Cardinality(Stage(q, "fire"))
                          /\ n = Cardinality(Stage(Other(q), "fire"))
    OBVIOUS
  <2>2. CASE Ended
    <3>1. j = 0 /\ k = 0 /\ l = 0 /\ n = 0 BY <1>1, <1>4, <2>1, <2>2
    <3> QED BY <2>1, <2>2, <3>1
  <2>3. CASE ~Ended
    <3>1. /\ n = 0
          /\ \/ j = 1 /\ k = 0 /\ l = 0
             \/ j = 0 /\ k = 1 /\ l = 0
             \/ j = 0 /\ k = 0 /\ l = 1
      BY <1>1, <1>4, <2>1, <2>3
    <3> QED BY <2>1, <2>3, <3>1
  <2> QED BY <2>2, <2>3
<1>6. CASE q = "red"
  <2>1. Other(q) = "blue" BY <1>6 DEF Other
  <2> QED BY <1>5, <1>6, <2>1
<1>7. CASE q = "blue"
  <2>1. Other(q) = "red" BY <1>7 DEF Other
  <2>2. \A n, m, j, k \in {0, 1} : n + m + j + k = m + n + k + j OBVIOUS
  <2>3. \A s \in Side : Cardinality(task[s]) \in {0, 1} /\ Cardinality(Stage(s, "fire")) \in {0, 1}
    BY <1>1, <1>3, <1>4
  <2> QED BY <1>5, <1>7, <2>1, <2>2, <2>3 DEF Side
<1> QED BY <1>6, <1>7 DEF Side

\* What a captain knows, once both are linked
LEMMA Known ==
    ASSUME Inv, Linked, NEW s \in Side
    PROVE  LET c == captain[s] o == captain[Other(s)] box == mail[Other(s)] IN
           /\ Sound(c) /\ Sound(o)
           /\ \/ /\ Stage(Other(s), "reply") = {}
                 /\ Settled(c, o) \/ \E id, x : Aiming(c, o, id, x)
              \/ Stage(Other(s), "reply") = {1} /\ Answered(c, o, box[1])
<1>0. /\ TypeOK /\ AtSetUp /\ LinkedIsReady /\ Other(s) \in Side /\ Side = {s, Other(s)}
      /\ Other(Other(s)) = s
      /\ captain[s] \in Captains /\ captain[Other(s)] \in Captains
  BY Sides, TypesAre DEF Inv, SetUpInv
<1>b. PICK m \in Seq(Volleys) : m = mail[Other(s)] BY <1>0, TypesAre
<1>1. Stage(Other(s), "reply") = {i \in 1 .. Len(m) : m[i].stage = "reply"} BY <1>b DEF Stage
<1>2. /\ m = <<>> => Stage(Other(s), "reply") = {}
      /\ Len(m) = 1 /\ m[1].stage = "reply" => Stage(Other(s), "reply") = {1}
      /\ Len(m) = 1 /\ m[1].stage = "fire" => Stage(Other(s), "reply") = {}
      /\ Len(m) = 2 /\ m[1].stage = "reply" /\ m[2].stage = "fire"
           => Stage(Other(s), "reply") = {1}
  <2>1. m = <<>> => Len(m) = 0 OBVIOUS
  <2>2. Len(m) = 0 => 1 .. Len(m) = {} OBVIOUS
  <2>3. Len(m) = 1 => 1 .. Len(m) = {1} OBVIOUS
  <2>4. Len(m) = 2 => 1 .. Len(m) = {1, 2} OBVIOUS
  <2> QED BY <1>1, <2>1, <2>2, <2>3, <2>4
<1>3. CASE main = "setup"
  <2>1. /\ Fresh(captain[s]) /\ Fresh(captain[Other(s)]) /\ m = <<>>
        /\ captain[s].fleet # {} /\ captain[Other(s)].fleet # {}
    BY <1>0, <1>b, <1>3 DEF AtSetUp, LinkedIsReady, Linked
  <2>2. Settled(captain[s], captain[Other(s)]) /\ Sound(captain[s]) /\ Sound(captain[Other(s)])
    BY <1>0, <2>1, FreshIs
  <2> QED BY <1>2, <2>1, <2>2
<1>4. CASE main # "setup"
  <2>1. /\ Sound(captain[s]) /\ Sound(captain[Other(s)])
        /\ Shape(s) \/ Shape(Other(s))
    BY <1>0, <1>4, InDuel
  <2>2. \/ m = <<>> /\ (Settled(captain[s], captain[Other(s)])
                          \/ \E id, x : Aiming(captain[s], captain[Other(s)], id, x))
        \/ Len(m) = 1 /\ m[1].stage = "reply" /\ Answered(captain[s], captain[Other(s)], m[1])
        \/ Len(m) = 1 /\ m[1].stage = "fire" /\ Settled(captain[s], captain[Other(s)])
        \/ /\ Len(m) = 2 /\ m[1].stage = "reply" /\ m[2].stage = "fire"
           /\ Answered(captain[s], captain[Other(s)], m[1])
    <3>1. CASE Launching(s) BY <1>b, <3>1 DEF Launching
    <3>2. CASE Flying(s) BY <1>b, <3>2 DEF Flying
    <3>3. CASE Landing(s)
      <4>1. PICK t : Aiming(captain[s], captain[Other(s)], t.id, t.cell)
        BY <3>3 DEF Landing
      <4> QED BY <1>0, <1>b, <3>3, <4>1 DEF Landing
    <3>4. CASE Beaten(s) BY <1>b, <3>4 DEF Beaten
    <3>5. CASE Launching(Other(s)) BY <1>0, <1>b, <3>5 DEF Launching, Told, Answered
    <3>6. CASE Flying(Other(s)) BY <1>0, <1>b, <3>6 DEF Flying, Answered
    <3>7. CASE Landing(Other(s)) BY <1>0, <1>b, <3>7 DEF Landing
    <3>8. CASE Beaten(Other(s)) BY <1>0, <1>b, <3>8 DEF Beaten, Answered
    <3> QED BY <2>1, <3>1, <3>2, <3>3, <3>4, <3>5, <3>6, <3>7, <3>8 DEF Shape
  <2> QED BY <1>b, <1>2, <2>1, <2>2
<1> QED BY <1>3, <1>4

\* The chart of a is that of the board of b
LEMMA ChartIs ==
    ASSUME NEW a \in Captains, NEW b \in Captains, Sound(b), NEW untold, Knows(a, b, untold)
    PROVE  /\ Cells \ Unknown(a) = Resolved(b) \ untold
           /\ \A x \in Cells \ Unknown(a) :
                /\ a.chart[x] = "miss" <=> x \in b.miss
                /\ a.chart[x] = "sunk" => OwnCell(b, x) = "sunk"
<1>1. Resolved(b) \subseteq Cells BY ResolvedIs
<1>2. Cells \ Unknown(a) = Resolved(b) \ untold BY <1>1 DEF Unknown, Knows
<1>3. ASSUME NEW x \in Cells \ Unknown(a), x \in b.miss PROVE a.chart[x] = "miss"
  <2>1. x \notin b.hit BY <1>3 DEF Sound
  <2>2. a.chart[x] # "sunk" BY <1>3, <2>1, SunkIs DEF Knows
  <2>3. a.chart[x] \in Marks /\ a.chart[x] # "unknown" /\ a.chart[x] # "hit"
    BY <1>3, <2>1 DEF Captains, Unknown, Knows
  <2> QED BY <2>2, <2>3 DEF Marks
<1> QED BY <1>2, <1>3 DEF Knows

LEMMA Charts == Inv => ChartAgrees
<1> SUFFICES ASSUME Inv, Linked, NEW s \in Side
             PROVE  LET c == captain[s] o == captain[Other(s)]
                        told == {mail[Other(s)][i].cell : i \in Stage(Other(s), "reply")}
                    IN /\ Cells \ Unknown(c) = Resolved(o) \ told
                       /\ \A x \in Cells \ Unknown(c) :
                            /\ (c.chart[x] = "miss") <=> (x \in o.miss)
                            /\ c.chart[x] = "sunk" => OwnCell(o, x) = "sunk"
                       /\ c.fired = Cardinality(Resolved(o))
                                      + (IF c.pending = NoShot \/ told # {} THEN 0 ELSE 1)
  BY DEF ChartAgrees
<1>0. TypeOK /\ Other(s) \in Side BY Sides DEF Inv
<1>1. PICK a \in Captains, b \in Captains : a = captain[s] /\ b = captain[Other(s)]
  BY <1>0, TypesAre
<1>2. PICK m, stage : m = mail[Other(s)] /\ stage = Stage(Other(s), "reply") OBVIOUS
<1>3. PICK told : told = {m[i].cell : i \in stage} OBVIOUS
<1>4. /\ Sound(b)
      /\ \/ stage = {} /\ (Settled(a, b) \/ \E id, x : Aiming(a, b, id, x))
         \/ stage = {1} /\ Answered(a, b, m[1])
  BY <1>1, <1>2, Known
<1>5. /\ Knows(a, b, told)
      /\ a.fired = Cardinality(Resolved(b)) + (IF a.pending = NoShot \/ told # {} THEN 0 ELSE 1)
  <2>0. Cardinality(Resolved(b)) \in Nat BY ResolvedIs
  <2>1. CASE stage = {} /\ Settled(a, b)
    <3>1. told = {} BY <1>3, <2>1
    <3> QED BY <2>0, <2>1, <3>1 DEF Settled
  <2>2. ASSUME stage = {}, NEW id, NEW x, Aiming(a, b, id, x)
        PROVE  /\ Knows(a, b, told)
               /\ a.fired = Cardinality(Resolved(b))
                              + (IF a.pending = NoShot \/ told # {} THEN 0 ELSE 1)
    <3>1. told = {} BY <1>3, <2>2
    <3>2. a.pending # NoShot BY <2>2, NoShotIs DEF Aiming
    <3> QED BY <2>0, <2>2, <3>1, <3>2 DEF Aiming
  <2>3. CASE stage = {1} /\ Answered(a, b, m[1])
    <3>1. told = {m[1].cell} BY <1>3, <2>3
    <3> QED BY <2>0, <2>3, <3>1 DEF Answered
  <2> QED BY <1>4, <2>1, <2>2, <2>3
<1>6. /\ Cells \ Unknown(a) = Resolved(b) \ told
      /\ \A x \in Cells \ Unknown(a) :
           /\ a.chart[x] = "miss" <=> x \in b.miss
           /\ a.chart[x] = "sunk" => OwnCell(b, x) = "sunk"
  BY <1>4, <1>5, ChartIs
<1> QED BY <1>1, <1>2, <1>3, <1>5, <1>6

LEMMA Winners == Inv => OneWinner
<1> SUFFICES ASSUME Inv, Linked, NEW s \in Side
             PROVE  LET c == captain[s] o == captain[Other(s)] IN
                    /\ c.won => c.over /\ o.over /\ ~o.won /\ AllShipsSunk(o) /\ ~AllShipsSunk(c)
                    /\ c.over /\ ~c.won => o.won \/ \E i \in Stage(s, "reply") : mail[s][i].over
  BY DEF OneWinner
<1>0. TypeOK /\ AtSetUp /\ Other(s) \in Side /\ Side = {s, Other(s)} /\ Other(Other(s)) = s
  BY Sides DEF Inv, SetUpInv
<1>1. PICK c, o : c = captain[s] /\ o = captain[Other(s)] OBVIOUS
<1>2. CASE main = "setup"
  <2>1. ~c.won /\ ~c.over BY <1>0, <1>1, <1>2 DEF AtSetUp, Fresh
  <2> QED BY <1>1, <2>1
<1>3. CASE main # "setup"
  <2>1. Sound(c) /\ Sound(o) /\ (Shape(s) \/ Shape(Other(s))) BY <1>0, <1>1, <1>3, InDuel
  <2>2. CASE ~c.won /\ ~c.over BY <1>1, <2>2
  <2>3. CASE Beaten(s)
    <3>1. /\ c.over /\ ~c.won
          /\ \/ Len(mail[s]) = 1 /\ Answered(o, c, mail[s][1])
             \/ o.won
      BY <1>1, <2>3 DEF Beaten
    <3>2. ASSUME Len(mail[s]) = 1, Answered(o, c, mail[s][1])
          PROVE  \E i \in Stage(s, "reply") : mail[s][i].over
      <4>1. 1 \in Stage(s, "reply") BY <3>2 DEF Stage, Answered
      <4> QED BY <3>1, <3>2, <4>1 DEF Answered
    <3> QED BY <1>1, <3>1, <3>2
  <2>4. CASE Beaten(Other(s))
    <3>1. o.over /\ ~o.won /\ ((~c.over /\ ~c.won) \/ (c.over /\ c.won))
      BY <1>0, <1>1, <2>4 DEF Beaten
    <3>2. c.won => AllShipsSunk(o) /\ ~AllShipsSunk(c) BY <2>1, <3>1 DEF Sound
    <3> QED BY <1>1, <3>1, <3>2
  <2>5. Due(s) \/ Due(Other(s)) => ~c.won /\ ~c.over BY <1>0, <1>1 DEF Due
  <2> QED BY <2>1, <2>2, <2>3, <2>4, <2>5 DEF Shape, Launching, Flying, Landing
<1> QED BY <1>2, <1>3

\* The program keeps its types, and during the duel there is exactly one turn to take,
\* asleep or under way (handlePeerVolley, fireNextVolley).
THEOREM TurnsArePassed == Spec => []DuelInv
<1>1. Inv => DuelInv BY Turns DEF DuelInv, Inv
<1> QED BY <1>1, Invariant, PTL

\* What a captain's chart and counter say is what happened on the other's board, short of
\* the reply under way (observeOutcome against receiveShot).
THEOREM ChartsAgree == Spec => []ChartAgrees
BY Charts, Invariant, PTL

\* The captains agree on who has won, and only one has (receiveShot, observeOutcome).
THEOREM WinnersAreOne == Spec => []OneWinner
BY Winners, Invariant, PTL

\* No callback is at work, and no thread left to start one, when the log that callbacks
\* push to is destroyed (main, ~Torpedolib).
THEOREM LogIsLast == Spec => []LogOutlivesCallbacks
<1>1. Inv => LogOutlivesCallbacks BY DEF Inv, Threads, LogOutlivesCallbacks, Side
<1> QED BY <1>1, Invariant, PTL

-----------------------------------------------------------------------------
(* The duel plays the game *)

fleets == [s \in Side |-> captain[s].fleet]
shots == [s \in Side |-> Resolved(captain[s])]

LEMMA BattleInit == Init => Battle!Init
<1> SUFFICES ASSUME Init PROVE Battle!Init
  OBVIOUS
<1>1. \A s \in Side : captain[s].fleet = {} /\ Resolved(captain[s]) = {}
  BY NewCaptainIs DEF Init, Resolved
<1>2. starter \in Side BY DEF Init
<1> QED BY <1>1, <1>2 DEF Battle!Init, Battle!Side, Side

\* What a step does when the boards do not change
LEMMA BattleSame ==
    ASSUME starter' = starter, \A s \in Side : SameBoard(captain[s], captain'[s])
    PROVE  UNCHANGED <<starter, fleets, shots>>
<1>1. \A s \in Side : Resolved(captain'[s]) = Resolved(captain[s])
  BY DEF SameBoard, Resolved
<1>2. fleets' = fleets BY DEF fleets, SameBoard
<1>3. shots' = shots BY <1>1 DEF shots
<1> QED BY <1>2, <1>3

LEMMA BattlePlace ==
    ASSUME NEW s \in Side, NEW f \in Fleets, starter' = starter,
           captain[s] \in Captains, captain[s].fleet = {},
           captain'[s] = [captain[s] EXCEPT !.fleet = f],
           captain'[Other(s)] = captain[Other(s)]
    PROVE  Battle!Place(s)
<1>0. Other(s) \in Side /\ Other(s) # s /\ Side = {s, Other(s)} BY Sides
<1>1. PICK c \in Captains : c = captain[s] OBVIOUS
<1>2. captain'[s].fleet = f /\ captain'[s].hit = c.hit /\ captain'[s].miss = c.miss
  BY <1>1 DEF Captains
<1>3. \A p \in Side : Resolved(captain'[p]) = Resolved(captain[p])
  BY <1>0, <1>1, <1>2 DEF Resolved
<1>4. fleets[s] = {} /\ fleets' = [fleets EXCEPT ![s] = f] BY <1>0, <1>2 DEF fleets
<1>5. shots' = shots BY <1>3 DEF shots
<1> QED BY <1>4, <1>5 DEF Battle!Place, fleets, shots

LEMMA BattleCounts == ASSUME NEW S PROVE Battle!Cardinality(S) = Cardinality(S)
BY Zenon DEF Cardinality, Battle!Cardinality

\* The other shoots at s
LEMMA BattleShoot ==
    ASSUME TypeOK, NEW s \in Side, Due(Other(s)), \A p \in Side : Sound(captain[p]),
           NEW x \in Cells \ Resolved(captain[s]), starter' = starter,
           captain'[Other(s)] = captain[Other(s)], captain'[s].fleet = captain[s].fleet,
           Resolved(captain'[s]) = Resolved(captain[s]) \cup {x}
    PROVE  Battle!Shoot(Other(s))
<1> DEFINE o == Other(s)
<1>0. o \in Side /\ o # s /\ Other(o) = s /\ Side = {s, o} /\ starter \in Side
  BY Sides DEF TypeOK
<1>1. shots' = [shots EXCEPT ![s] = shots[s] \cup {x}] /\ x \in Cells \ shots[s]
  BY <1>0 DEF shots
<1>2. fleets' = fleets BY <1>0 DEF fleets
<1>3. ASSUME NEW p \in Side PROVE fleets[p] # {} /\ ~(UNION fleets[p] \subseteq shots[p])
  <2>1. PICK c : c = captain[p] OBVIOUS
  <2>2. Sound(c) /\ ~c.over BY <2>1 DEF Due
  <2>3. PICK ship \in c.fleet : ~(ship \subseteq c.hit)
    BY <2>2 DEF Sound, AllShipsSunk, Sinks
  <2>4. ~(UNION c.fleet \subseteq Resolved(c)) BY <2>2, <2>3 DEF Sound, Resolved
  <2> QED BY <2>1, <2>3, <2>4 DEF fleets, shots
<1>4. IF Cardinality(shots["red"]) = Cardinality(shots["blue"]) THEN o = starter
                                                              ELSE o = Other(starter)
  <2>1. /\ Cardinality(Resolved(captain[s])) \in Nat
        /\ Cardinality(Resolved(captain[o]))
             = Cardinality(Resolved(captain[s])) + IF o = starter THEN 0 ELSE 1
    BY <1>0, TypesAre, ResolvedIs DEF Due
  <2>2. Cardinality(shots[o]) = Cardinality(shots[s]) <=> o = starter
    BY <1>0, <2>1 DEF shots
  <2>3. {s, o} = {"red", "blue"} BY <1>0 DEF Side
  <2>4. o # starter => o = Other(starter) BY <1>0
  <2>5. Cardinality(shots["red"]) = Cardinality(shots["blue"]) <=> o = starter
    BY <1>0, <2>2, <2>3
  <2> QED BY <2>4, <2>5
<1>5. Battle!Other(o) = s /\ Battle!Other(starter) = Other(starter) /\ Battle!Side = Side
  BY <1>0 DEF Battle!Other, Battle!Side, Other, Side
<1>6. Battle!Turn = o BY <1>4, <1>5, BattleCounts DEF Battle!Turn, shots
<1>7. \A p \in Battle!Side : fleets[p] # {} /\ ~Battle!Sunk(p)
  BY <1>3, <1>5 DEF Battle!Sunk, fleets, shots
<1>8. \E y \in Cells \ shots[Battle!Other(o)] :
        shots' = [shots EXCEPT ![Battle!Other(o)] = @ \cup {y}]
  BY <1>1, <1>5
<1> QED BY <1>2, <1>6, <1>7, <1>8 DEF Battle!Shoot, fleets, shots

\* A captain that takes a shot is in the duel, or red takes the last one of blue
LEMMA ShotIsDue ==
    ASSUME Inv, NEW s \in Side, NEW t, NEW d, Shot(s, t, d)
    PROVE  /\ Due(Other(s)) /\ \A p \in Side : Sound(captain[p])
           /\ t.cell \in Cells \ Resolved(captain[s])
<1>0. /\ TypeOK /\ AtSetUp /\ WhereLinked /\ Other(s) \in Side /\ Side = {s, Other(s)}
      /\ "red" \in Side /\ "blue" \in Side
  BY Sides DEF Inv, SetUpInv, Side
<1>1. /\ t \in task[s] /\ t \in Tasks /\ t.does = "receive" /\ captain[s].linked
      /\ t.cell \notin Resolved(captain[s])
  BY DEF Shot, Playing
<1>2. t.cell \in Cells BY <1>1 DEF Tasks
<1>3. main # "setup" BY <1>0, <1>1 DEF AtSetUp
<1>4. CASE Linked BY <1>1, <1>2, <1>3, <1>4, InDuel, ShotIs
<1>5. CASE ~Linked
  <2>1. main \in {"joinBlue", "destroyRed"}
    <3>1. main \notin Dueling /\ main # "destroyBlue" BY <1>0, <1>1, <1>5 DEF WhereLinked
    <3>2. main \notin {"joinRed", "destroyLog", "done"} BY <1>0, <1>1 DEF WhereLinked
    <3>3. main \in Places BY <1>0 DEF TypeOK
    <3> QED BY <1>3, <3>1, <3>2, <3>3 DEF Places, Dueling
  <2>2. s = "red" BY <1>0, <1>1, <2>1 DEF WhereLinked, Side
  <2>3. Spent \/ LastShot BY <1>1, <2>1, <2>2, AdriftIs
  <2>4. t \in LeftLanding BY <1>1, <2>2 DEF LeftLanding
  <2>5. Due("blue") /\ \A p \in Side : Sound(captain[p])
    BY <2>3, <2>4 DEF Spent, LastShot
  <2> QED BY <1>1, <1>2, <2>2, <2>5 DEF Other
<1> QED BY <1>4, <1>5

LEMMA TakeShotPlays ==
    ASSUME Inv, NEW s \in Side, TakeShot(s)
    PROVE  Battle!Shoot(Other(s))
<1>0. TypeOK /\ captain[s] \in Captains BY TypesAre DEF Inv
<1>1. PICK t, d : Shot(s, t, d) /\ (Stays(s, t, d) \/ Counters(s, t, d))
  BY <1>0, TakeShotIs
<1>2. starter' = starter BY <1>0, TakeShotIs
<1>3. /\ Due(Other(s)) /\ \A p \in Side : Sound(captain[p])
      /\ t.cell \in Cells \ Resolved(captain[s])
  BY <1>1, ShotIsDue
<1>4. PICK x : x = t.cell OBVIOUS
<1>5. PICK c : c = captain[s] OBVIOUS
<1>6. d \in Captains /\ d.fleet = c.fleet /\ Resolved(d) = Resolved(c) \cup {x}
  BY <1>1, <1>4, <1>5 DEF Shot, Received, Resolved
<1>7. captain'[s].fleet = d.fleet /\ Resolved(captain'[s]) = Resolved(d)
  <2>1. CASE Stays(s, t, d) BY <2>1 DEF Stays
  <2>2. CASE Counters(s, t, d)
    <3>1. PICK y \in Cells : captain'[s] = PlanNextShot(d, y)
      BY <2>2 DEF Counters, Unknown
    <3>2. PICK e : e = PlanNextShot(d, y) OBVIOUS
    <3>a. d \in Captains BY <1>6
    <3>p. Planned(d, y, e) BY <3>a, <3>2, PlanIs
    <3>3. e.fleet = d.fleet /\ e.hit = d.hit /\ e.miss = d.miss BY <3>p DEF Planned
    <3> QED BY <3>1, <3>2, <3>3 DEF Resolved
  <2> QED BY <1>1, <2>1, <2>2
<1>8. captain'[Other(s)] = captain[Other(s)] BY <1>1 DEF Shot
<1> QED BY <1>0, <1>2, <1>3, <1>4, <1>5, <1>6, <1>7, <1>8, BattleShoot

LEMMA ProcessingPlays ==
    ASSUME Inv, NEW s \in Side, Processing(s)
    PROVE  Battle!Shoot(Other(s)) \/ UNCHANGED <<starter, fleets, shots>>
<1>0. /\ TypeOK /\ Other(s) \in Side /\ Side = {s, Other(s)} /\ captain[s] \in Captains
  BY Sides, TypesAre DEF Inv
<1>1. starter' = starter BY <1>0, ProcessingKeeps
<1>2. CASE HearFire(s)
  <2>1. captain'[Other(s)] = captain[Other(s)] /\ SameBoard(captain[s], captain'[s])
    BY <1>0, <1>2, HearFireIs DEF Alike
  <2>2. \A p \in Side : SameBoard(captain[p], captain'[p]) BY <1>0, <2>1 DEF SameBoard
  <2> QED BY <1>1, <2>2, BattleSame
<1>3. CASE HearReply(s)
  <2>1. PICK v \in Volleys : v = mail[Other(s)][1] BY <1>0, <1>3, HearReplyIs
  <2>2. PICK c \in Captains : c = captain[s] BY <1>0
  <2>3. PICK d : d = ObserveOutcome(c, v) OBVIOUS
  <2>4. Informed(c, v, d) BY <2>3, ObserveIs
  <2>5. captain'[s] \in {c, d} /\ captain'[Other(s)] = captain[Other(s)]
    BY <1>0, <1>3, <2>1, <2>2, <2>3, HearReplyIs
  <2>6. \A p \in Side : SameBoard(captain[p], captain'[p])
    BY <1>0, <2>2, <2>4, <2>5 DEF Informed, SameBoard
  <2> QED BY <1>1, <2>6, BattleSame
<1>4. CASE RefuseShot(s) \/ Launch(s)
  <2>1. captain' = captain BY <1>0, <1>4, RefuseShotIs, LaunchIs
  <2>2. \A p \in Side : SameBoard(captain[p], captain'[p]) BY <2>1 DEF SameBoard
  <2> QED BY <1>1, <2>2, BattleSame
<1>5. CASE TakeShot(s) BY <1>5, TakeShotPlays
<1> QED BY <1>2, <1>3, <1>4, <1>5 DEF Processing

LEMMA SetUpPlays ==
    ASSUME Inv, NEW s \in Side, SetUp(s)
    PROVE  Battle!Place(s) \/ UNCHANGED <<starter, fleets, shots>>
<1>0. /\ TypeOK /\ AtSetUp /\ Side = {s, Other(s)} /\ captain[s] \in Captains
  BY Sides, TypesAre DEF Inv, SetUpInv
<1>1. PICK c \in Captains : c = captain[s] BY <1>0
<1>2. captain'[Other(s)] = captain[Other(s)] /\ starter' = starter /\ Fresh(c) /\ main = "setup"
  BY <1>0, <1>1, ScriptStep
<1>3. ASSUME SameBoard(c, captain'[s]) PROVE UNCHANGED <<starter, fleets, shots>>
  <2>1. \A p \in Side : SameBoard(captain[p], captain'[p])
    BY <1>0, <1>1, <1>2, <1>3 DEF SameBoard
  <2> QED BY <1>2, <2>1, BattleSame
<1>4. CASE captain' = captain BY <1>1, <1>3, <1>4 DEF SameBoard
<1>5. CASE Here(s, 4) /\ captain'[s] = NewCaptain
  <2>1. c.fleet = {} BY <1>0, <1>1, <1>5 DEF AtSetUp, Here
  <2>2. SameBoard(c, captain'[s]) BY <1>2, <1>5, <2>1, NewCaptainIs DEF SameBoard, Fresh
  <2> QED BY <1>3, <2>2
<1>6. CASE Here(s, 6) /\ \E f \in Fleets : captain'[s] = [captain[s] EXCEPT !.fleet = f]
  <2>1. captain[s].fleet = {} BY <1>0, <1>6 DEF AtSetUp, Here
  <2> QED BY <1>0, <1>2, <1>6, <2>1, BattlePlace
<1>7. CASE captain'[s] = [Unlinked(captain[s]) EXCEPT !.linked = TRUE]
  <2>1. PICK u \in Captains : u = Unlinked(c) BY UnlinkedIs
  <2>2. SameBoard(c, u) BY <2>1, UnlinkedIs DEF SameBoard
  <2>3. captain'[s] = [u EXCEPT !.linked = TRUE] BY <1>1, <1>7, <2>1
  <2>4. SameBoard(u, captain'[s]) BY <2>3 DEF SameBoard, Captains
  <2> QED BY <1>3, <2>2, <2>4 DEF SameBoard
<1>8. CASE StartGame(s)
  <2>1. PICK x \in Cells : captain'[s] = PlanNextShot(c, x)
    BY <1>0, <1>1, <1>8, StartGameIs DEF Opening, Unknown
  <2>2. PICK d : d = PlanNextShot(c, x) OBVIOUS
  <2>p. Planned(c, x, d) BY <2>2, PlanIs
  <2>3. d.fleet = c.fleet /\ d.hit = c.hit /\ d.miss = c.miss BY <2>p DEF Planned
  <2> QED BY <1>3, <2>1, <2>2, <2>3 DEF SameBoard
<1> QED BY <1>0, <1>4, <1>5, <1>6, <1>7, <1>8, ScriptStep

LEMMA BattleStep ==
    Inv /\ [Next]_vars =>
      (\E s \in Side : Battle!Place(s) \/ Battle!Shoot(s)) \/ UNCHANGED <<starter, fleets, shots>>
<1> SUFFICES ASSUME Inv, [Next]_vars
             PROVE  (\E s \in Side : Battle!Place(s) \/ Battle!Shoot(s))
                      \/ UNCHANGED <<starter, fleets, shots>>
  OBVIOUS
<1>0. TypeOK /\ AtSetUp /\ \A s \in Side : Other(s) \in Side BY Sides DEF Inv, SetUpInv
<1>1. CASE UNCHANGED <<captain, starter>> BY <1>1, BattleSame DEF SameBoard
<1>2. CASE \E s \in Side : SetUp(s) BY <1>2, SetUpPlays
<1>3. CASE Fatal \/ Observe BY <1>0, <1>1, <1>3, FatalIs, ObserveIsRemote
<1>4. CASE Return
  <2>1. ASSUME NEW s \in Side, NEW from, NEW to, Close(s, from, to), starter' = starter
        PROVE  UNCHANGED <<starter, fleets, shots>>
    <3>1. \A p \in Side : SameBoard(captain[p], captain'[p])
      BY <1>0, <2>1, CloseIs, Sides DEF SameBoard
    <3> QED BY <2>1, <3>1, BattleSame
  <2>2. "red" \in Side /\ "blue" \in Side BY DEF Side
  <2> QED BY <1>0, <1>1, <1>4, <2>1, <2>2, ReturnIs DEF Detach, Reap
<1>5. CASE \E s \in Side : Processing(s) BY <1>0, <1>5, ProcessingPlays
<1> QED BY <1>1, <1>2, <1>3, <1>4, <1>5, Steps

\* The two captains, which only exchange messages, play the game of Battleship, whatever
\* main does: also when it leaves and shuts blue down before red (receiveShot, main).
THEOREM DuelIsBattleship == Spec => PlaysBattleship
<1>1. Inv /\ [Next]_vars => [Battle!Next]_<<starter, fleets, shots>>
  <2>1. Battle!Side = Side BY DEF Battle!Side, Side
  <2> QED BY <2>1, BattleStep DEF Battle!Next
<1> QED BY BattleInit, <1>1, Invariant, PTL DEF Spec, PlaysBattleship, Battle!Spec, fleets, shots
=============================================================================
