------------------------- MODULE TorpedoFrame_proofs -------------------------
(***************************************************************************)
(* What main() of TorpedoDuel draws: proof that a frame, put together from *)
(* two views of captains that play on in between, is one of a duel.        *)
(***************************************************************************)
EXTENDS TorpedoDuel_proofs

\* Expanded in every leaf: the tuples behind UNCHANGED
USE DEF mainVars, logVars, contextVars, vars

\* A captain, or the view of one, that has lost
Lost(c) == c.over /\ ~c.won

\* What can be said of a view by itself
Honest(v) ==
    /\ v.chart \in [Cells -> Marks] /\ v.fired \in Nat /\ v.received \in Nat
    /\ v.won => v.over
    /\ Lost(v) <=> \A ship \in DOMAIN v.fleet : v.fleet[ship] = Cardinality(ship)

\* A view v of Red next to the waters, counters and end of Blue at the same time or later
Agrees(v, own, fired, received, lost) ==
    /\ \A x \in Cells :
         /\ v.chart[x] = "miss" => own[x] = "miss"
         /\ v.chart[x] = "hit" => own[x] \in {"hit", "sunk"}
         /\ v.chart[x] = "sunk" => own[x] = "sunk"
    /\ v.received <= fired /\ v.fired <= received + 1
    /\ v.won => lost

Waters(c) == [x \in Cells |-> OwnCell(c, x)]
Precedes(v, b) == Agrees(v, Waters(b), b.fired, Cardinality(Resolved(b)), Lost(b))
Matches(v, w) == Agrees(v, w.own, w.fired, w.received, Lost(w))

\* The loop of main(): where it has one view, and where it has both
HasRed == main \in {"viewBlue", "finalBlue"}
HasBoth == main \in {"readLast", "draw", "drawFinal"}
Looping == main \in {"started", "key", "viewRed", "viewBlue", "readLast", "draw",
                     "finalRed", "finalBlue", "drawFinal"}
Red == view["red"][1]
Blue == view["blue"][1]

Views ==
    /\ DOMAIN view = Side
    /\ HasRed \/ HasBoth => view["red"] # <<>> /\ Honest(Red) /\ (Red.over => captain["red"].over)
    /\ HasRed => Precedes(Red, captain["blue"])
    /\ HasBoth => /\ view["blue"] # <<>> /\ Honest(Blue) /\ (Blue.over => captain["blue"].over)
                  /\ Matches(Red, Blue)

\* The last round is entered when a captain has lost
Decided ==
    /\ main = "finalRed" => Ended
    /\ main = "finalBlue" => Red.over \/ Lost(captain["blue"])
    /\ main = "drawFinal" => Red.over \/ Lost(Blue)

\* No winner is announced before
Undeclared ==
    main = "setup" \/ main = "starting" \/ Looping => \A s \in Side : banner # <<"wins", s>>

FrameInv == Views /\ Decided /\ Undeclared /\ FrameIsBelievable

\* What is on the screen stays believable.
LEMMA FrameStays ==
    ASSUME FrameInv, UNCHANGED screen
    PROVE  FrameIsBelievable'
<1>1. FrameIsBelievable BY DEF FrameInv
<1> QED BY <1>1, ZenonT(60) DEF FrameIsBelievable

-----------------------------------------------------------------------------
(* Views *)

LEMMA BoardIs ==
    ASSUME NEW c, NEW v, v = PublicBoard(c)
    PROVE  /\ v.own = Waters(c) /\ v.chart = c.chart
           /\ v.fleet = [ship \in c.fleet |-> Cardinality(ship \cap c.hit)]
           /\ v.over = c.over /\ v.won = c.won /\ v.fired = c.fired
           /\ v.received = Cardinality(Resolved(c))
<1>1. v = [own |-> Waters(c), chart |-> c.chart, fleet |-> FleetHits(c),
           linked |-> c.linked, started |-> c.started, over |-> c.over, won |-> c.won,
           fired |-> c.fired, received |-> Cardinality(Resolved(c))]
  BY DEF PublicBoard, Waters
<1>2. FleetHits(c) = [ship \in c.fleet |-> Cardinality(ship \cap c.hit)] BY DEF FleetHits
<1> QED BY <1>1, <1>2

\* A ship has sunk when it has as many hits as cells
LEMMA SinksIs ==
    ASSUME NEW c \in Captains, c.fleet # {}, NEW ship \in c.fleet
    PROVE  Sinks(c, ship) <=> Cardinality(ship \cap c.hit) = Cardinality(ship)
<1>1. ship \subseteq Cells /\ IsFiniteSet(Cells) BY ShipsAre, DuelAssumption
<1>2. IsFiniteSet(ship) BY <1>1, FS_Subset
<1>3. ship \cap c.hit \in SUBSET ship OBVIOUS
<1>4. Cardinality(ship) = Cardinality(ship \cap c.hit) => ship = ship \cap c.hit
  BY <1>2, <1>3, FS_Subset
<1>5. ship \subseteq c.hit => ship \cap c.hit = ship OBVIOUS
<1> QED BY <1>4, <1>5 DEF Sinks

LEMMA HonestIs ==
    ASSUME NEW c \in Captains, Sound(c), c.won => c.over, NEW v, v = PublicBoard(c)
    PROVE  Honest(v)
<1>1. /\ v.chart = c.chart /\ v.fleet = [ship \in c.fleet |-> Cardinality(ship \cap c.hit)]
      /\ v.over = c.over /\ v.won = c.won /\ v.fired = c.fired
      /\ v.received = Cardinality(Resolved(c))
  BY BoardIs
<1>2. c.chart \in [Cells -> Marks] /\ c.fired \in Nat BY DEF Captains
<1>3. Cardinality(Resolved(c)) \in Nat BY ResolvedIs
<1>4. Lost(v) <=> \A ship \in DOMAIN v.fleet : v.fleet[ship] = Cardinality(ship)
  <2>1. c.fleet # {} /\ (Lost(c) <=> \A ship \in c.fleet : Sinks(c, ship))
    BY DEF Sound, AllShipsSunk, Lost
  <2>2. Lost(v) <=> Lost(c) BY <1>1 DEF Lost
  <2>3. DOMAIN v.fleet = c.fleet BY <1>1
  <2>4. \A ship \in c.fleet : v.fleet[ship] = Cardinality(ship) <=> Sinks(c, ship)
    BY <1>1, <2>1, SinksIs
  <2> QED BY <2>1, <2>2, <2>3, <2>4
<1> QED BY <1>1, <1>2, <1>3, <1>4 DEF Honest

\* c plays on and turns into d
Grows(c, d) ==
    /\ d.fleet = c.fleet /\ c.hit \subseteq d.hit /\ c.miss \subseteq d.miss
    /\ c.fired <= d.fired /\ (c.over => d.over /\ d.won = c.won)

LEMMA CellGrows ==
    ASSUME NEW c, NEW d, Grows(c, d), NEW x
    PROVE  /\ OwnCell(c, x) = "miss" => OwnCell(d, x) = "miss"
           /\ OwnCell(c, x) \in {"hit", "sunk"} => OwnCell(d, x) \in {"hit", "sunk"}
           /\ OwnCell(c, x) = "sunk" => OwnCell(d, x) = "sunk"
<1>1. OwnCell(c, x) = "sunk" => OwnCell(d, x) = "sunk" BY SunkIs DEF Grows
<1>2. OwnCell(c, x) = "miss" => OwnCell(d, x) = "miss" BY DEF OwnCell, Grows
<1>3. OwnCell(c, x) = "hit" => OwnCell(d, x) \in {"hit", "sunk"} BY DEF OwnCell, Grows
<1> QED BY <1>1, <1>2, <1>3

LEMMA PrecedesGrows ==
    ASSUME NEW v, Honest(v), NEW b \in Captains, NEW d \in Captains, Grows(b, d), Precedes(v, b)
    PROVE  Precedes(v, d)
<1>1. \A x \in Cells :
        /\ v.chart[x] = "miss" => OwnCell(b, x) = "miss"
        /\ v.chart[x] = "hit" => OwnCell(b, x) \in {"hit", "sunk"}
        /\ v.chart[x] = "sunk" => OwnCell(b, x) = "sunk"
  BY DEF Precedes, Agrees, Waters
<1>2. \A x \in Cells :
        /\ v.chart[x] = "miss" => Waters(d)[x] = "miss"
        /\ v.chart[x] = "hit" => Waters(d)[x] \in {"hit", "sunk"}
        /\ v.chart[x] = "sunk" => Waters(d)[x] = "sunk"
  BY <1>1, CellGrows DEF Waters
<1>3. Cardinality(Resolved(b)) <= Cardinality(Resolved(d))
  <2>1. Resolved(b) \in SUBSET Resolved(d) BY DEF Resolved, Grows
  <2> QED BY <2>1, ResolvedIs, FS_Subset
<1>4. /\ b.fired \in Nat /\ d.fired \in Nat /\ b.fired <= d.fired
      /\ v.fired \in Nat /\ v.received \in Nat
  BY DEF Captains, Honest, Grows
<1>5. Cardinality(Resolved(b)) \in Nat /\ Cardinality(Resolved(d)) \in Nat BY ResolvedIs
<1>6. v.received <= b.fired /\ v.fired <= Cardinality(Resolved(b)) + 1 /\ (v.won => Lost(b))
  BY DEF Precedes, Agrees
<1>7. v.received <= d.fired /\ v.fired <= Cardinality(Resolved(d)) + 1
  BY <1>3, <1>4, <1>5, <1>6
<1>8. Lost(b) => Lost(d) BY DEF Lost, Grows
<1> QED BY <1>2, <1>6, <1>7, <1>8 DEF Precedes, Agrees

LEMMA MatchesIs ==
    ASSUME NEW v, NEW b, Precedes(v, b), NEW w, w = PublicBoard(b)
    PROVE  Matches(v, w)
<1>1. /\ w.own = Waters(b) /\ w.fired = b.fired /\ w.received = Cardinality(Resolved(b))
      /\ w.over = b.over /\ w.won = b.won
  BY BoardIs
<1>2. Lost(w) <=> Lost(b) BY <1>1 DEF Lost
<1> QED BY <1>1, <1>2 DEF Precedes, Matches, Agrees

\* What Red knows now is what happened to Blue so far, and Blue has counted its shots
LEMMA PrecedesNow ==
    ASSUME Inv, Linked, NEW v, v = PublicBoard(captain["red"])
    PROVE  Honest(v) /\ Precedes(v, captain["blue"])
<1>0. "red" \in Side /\ "blue" \in Side /\ Other("red") = "blue" /\ Other("blue") = "red"
  BY DEF Side, Other
<1>1. PICK c \in Captains, b \in Captains : c = captain["red"] /\ b = captain["blue"]
  BY <1>0, TypesAre DEF Inv
<1>2. /\ Sound(c) /\ Sound(b)
      /\ Settled(c, b) \/ (\E id, x : Aiming(c, b, id, x)) \/ (\E r : Answered(c, b, r))
      /\ Settled(b, c) \/ (\E id, x : Aiming(b, c, id, x)) \/ (\E r : Answered(b, c, r))
  <2>1. PICK m, n : m = mail["red"] /\ n = mail["blue"] OBVIOUS
  <2>2. /\ Sound(c) /\ Sound(b)
        /\ Settled(c, b) \/ (\E id, x : Aiming(c, b, id, x)) \/ Answered(c, b, n[1])
    BY <1>0, <1>1, <2>1, Known
  <2>3. Settled(b, c) \/ (\E id, x : Aiming(b, c, id, x)) \/ Answered(b, c, m[1])
    BY <1>0, <1>1, <2>1, Known
  <2> QED BY <2>2, <2>3
<1>3. /\ Cardinality(Resolved(c)) \in Nat /\ Cardinality(Resolved(b)) \in Nat
      /\ c.fired \in Nat /\ b.fired \in Nat
  BY ResolvedIs DEF Captains
<1>4. c.fired <= Cardinality(Resolved(b)) + 1 /\ Cardinality(Resolved(c)) <= b.fired
  <2>1. PICK m \in Nat, n \in Nat : m = Cardinality(Resolved(c)) /\ n = Cardinality(Resolved(b))
    BY <1>3
  <2>2. c.fired = n \/ c.fired = n + 1 BY <1>2, <2>1 DEF Settled, Aiming, Answered
  <2>3. b.fired = m \/ b.fired = m + 1 BY <1>2, <2>1 DEF Settled, Aiming, Answered
  <2> QED BY <1>3, <2>1, <2>2, <2>3
<1>5. \E untold : Knows(c, b, untold) BY <1>2 DEF Settled, Aiming, Answered
<1>6. ASSUME NEW x \in Cells
      PROVE  /\ c.chart[x] = "miss" => OwnCell(b, x) = "miss"
             /\ c.chart[x] = "hit" => OwnCell(b, x) \in {"hit", "sunk"}
             /\ c.chart[x] = "sunk" => OwnCell(b, x) = "sunk"
  <2>1. /\ c.chart[x] = "miss" => x \in b.miss
        /\ c.chart[x] = "hit" => x \in b.hit
        /\ c.chart[x] = "sunk" => OwnCell(b, x) = "sunk"
    BY <1>5 DEF Knows
  <2>2. x \in b.miss => x \notin UNION b.fleet BY <1>2 DEF Sound
  <2>3. x \in b.hit => x \in UNION b.fleet BY <1>2 DEF Sound
  <2>4. x \in b.miss => OwnCell(b, x) = "miss" BY <2>2 DEF OwnCell
  <2>5. x \in b.hit => OwnCell(b, x) \in {"hit", "sunk"} BY <2>3 DEF OwnCell
  <2> QED BY <2>1, <2>4, <2>5
<1>7. (c.won => c.over) /\ (c.won => Lost(b))
  BY <1>0, <1>1, Winners DEF OneWinner, Lost
<1>8. Honest(v) BY <1>1, <1>2, <1>7, HonestIs
<1>9. /\ v.chart = c.chart /\ v.fired = c.fired /\ v.won = c.won
      /\ v.received = Cardinality(Resolved(c))
  BY <1>1, BoardIs
<1>10. Precedes(v, b) BY <1>4, <1>6, <1>7, <1>9 DEF Precedes, Agrees, Waters
<1> QED BY <1>1, <1>8, <1>10

LEMMA BlueHonest ==
    ASSUME Inv, Linked, NEW w, w = PublicBoard(captain["blue"])
    PROVE  Honest(w)
<1>0. "blue" \in Side BY DEF Side
<1>1. PICK b \in Captains : b = captain["blue"] BY <1>0, TypesAre DEF Inv
<1>2. Sound(b) BY <1>0, <1>1, Known
<1>3. b.won => b.over BY <1>0, <1>1, Winners DEF OneWinner
<1> QED BY <1>1, <1>2, <1>3, HonestIs

LEMMA PlanGrows ==
    ASSUME NEW c \in Captains, NEW x \in Cells, NEW d, d = PlanNextShot(c, x)
    PROVE  Grows(c, d)
<1>1. c.fired \in Nat BY DEF Captains
<1>2. Planned(c, x, d) BY PlanIs
<1> QED BY <1>1, <1>2 DEF Planned, Grows

\* Captains do not take anything back
LEMMA ProcessingGrows ==
    ASSUME TypeOK, TypeOK', NEW s \in Side, Processing(s)
    PROVE  \A p \in Side : Grows(captain[p], captain'[p])
<1>0. Other(s) \in Side /\ Side = {s, Other(s)} BY Sides
<1>1. \A c \in Captains : Grows(c, c) /\ \A d : Alike(c, d) => Grows(c, d)
  <2>1. \A c \in Captains : c.fired \in Nat BY DEF Captains
  <2>2. \A n \in Nat : n <= n OBVIOUS
  <2> QED BY <2>1, <2>2 DEF Grows, Alike, SameBoard, SameChart, SameEnd
<1>a. captain[s] \in Captains /\ captain[Other(s)] \in Captains BY <1>0, TypesAre
<1>2. CASE HearFire(s) BY <1>0, <1>1, <1>2, <1>a, HearFireIs
<1>3. CASE HearReply(s)
  <2>1. PICK v \in Volleys : v = mail[Other(s)][1] BY <1>3, HearReplyIs
  <2>2. PICK c \in Captains : c = captain[s] BY <1>a
  <2>3. PICK d : d = ObserveOutcome(c, v) OBVIOUS
  <2>4. ~c.over => Grows(c, d)
    <3>1. Informed(c, v, d) BY <2>3, ObserveIs
    <3>2. c.fired \in Nat BY DEF Captains
    <3> QED BY <3>1, <3>2 DEF Informed, Grows
  <2>5. /\ captain'[s] = c \/ (~c.over /\ captain'[s] = d)
        /\ captain'[Other(s)] = captain[Other(s)]
    BY <1>3, <2>1, <2>2, <2>3, HearReplyIs
  <2> QED BY <1>0, <1>1, <1>a, <2>2, <2>4, <2>5
<1>4. CASE RefuseShot(s) BY <1>1, <1>4, RefuseShotIs, TypesAre
<1>5. CASE TakeShot(s)
  <2>1. PICK t, d : Shot(s, t, d) /\ (Stays(s, t, d) \/ Counters(s, t, d))
    BY <1>5, TakeShotIs
  <2>2. PICK c \in Captains : c = captain[s] BY <1>a
  <2>3. /\ Received(c, t.cell, d) /\ ~c.over /\ captain'[Other(s)] = captain[Other(s)]
    BY <2>1, <2>2 DEF Shot, Playing
  <2>4. d \in Captains /\ c.fired \in Nat BY <2>3 DEF Received, Captains
  <2>5. Grows(c, d) BY <2>3, <2>4 DEF Received, Grows
  <2>6. CASE Stays(s, t, d) BY <1>0, <1>1, <1>a, <2>2, <2>3, <2>5, <2>6 DEF Stays
  <2>7. CASE Counters(s, t, d)
    <3>1. PICK x \in Cells : captain'[s] = PlanNextShot(d, x)
      BY <2>7 DEF Counters, Unknown
    <3>a. d \in Captains BY <2>4
    <3>2. PICK e : e = PlanNextShot(d, x) OBVIOUS
    <3>3. Grows(d, e) BY <3>a, <3>1, <3>2, PlanGrows
    <3>4. d.fired = c.fired BY <2>3 DEF Received
    <3>5. Grows(c, e) BY <2>3, <2>4, <2>5, <3>3, <3>4 DEF Grows
    <3> QED BY <1>0, <1>1, <1>a, <2>2, <2>3, <3>1, <3>2, <3>5
  <2> QED BY <2>1, <2>6, <2>7
<1>6. CASE Launch(s) BY <1>1, <1>6, LaunchIs, TypesAre
<1> QED BY <1>2, <1>3, <1>4, <1>5, <1>6 DEF Processing

\* A frame drawn from views that agree
LEMMA Drawn ==
    ASSUME NEW top, DrawScreen(top),
           Honest(Red), Honest(Blue), Matches(Red, Blue),
           \A s \in Side : top = <<"wins", s>> => Outcome(view[s][1]) = "won"
                                                   /\ Lost(view[Other(s)][1])
    PROVE  FrameIsBelievable'
<1>1. PICK v, w : v = Red /\ w = Blue OBVIOUS
<1>2. PICK shown : shown = [s \in Side |-> view[s][1]] OBVIOUS
<1>3. shown["red"] = v /\ shown["blue"] = w BY <1>1, <1>2 DEF Side, Red, Blue
<1>4. PICK f : f = [banner |-> top, entries |-> log,
                    panels |-> [s \in Side |-> Panels(shown[s])],
                    fleet |-> [s \in Side |-> FleetStatus(shown[s])],
                    meta |-> [s \in Side |-> MetaInfo(shown[s])],
                    score |-> [s \in Side |-> Scoreboard(shown[s])]]
  OBVIOUS
<1>5. screen' = <<f>> BY <1>2, <1>4 DEF DrawScreen
<1>6. /\ f.banner = top
      /\ \A s \in Side : /\ f.panels[s] = Panels(shown[s]) /\ f.fleet[s] = FleetStatus(shown[s])
                         /\ f.meta[s] = MetaInfo(shown[s]) /\ f.score[s] = Scoreboard(shown[s])
  BY <1>4
<1>7. ASSUME NEW u, Honest(u)
      PROVE  /\ \A x \in Cells : /\ Panels(u).enemy[x] = EnemySymbol(u.chart[x])
                                 /\ Panels(u).own[x] = OwnSymbol(u.own[x])
                                 /\ Panels(u).enemy[x] # "!"
             /\ MetaInfo(u).outcome = Outcome(u)
             /\ Outcome(u) = "lost" <=> Lost(u)
             /\ Lost(u) <=> \A ship \in DOMAIN FleetStatus(u) : FleetStatus(u)[ship].sunk
             /\ Scoreboard(u).fired = u.fired /\ Scoreboard(u).received = u.received
  <2>1. \A x \in Cells : /\ Panels(u).enemy[x] = EnemySymbol(u.chart[x])
                         /\ Panels(u).own[x] = OwnSymbol(u.own[x])
    BY DEF Panels
  <2>2. \A x \in Cells : u.chart[x] \in Marks BY <1>7 DEF Honest
  <2>3. \A x \in Cells : EnemySymbol(u.chart[x]) # "!" BY <2>2 DEF Marks, EnemySymbol
  <2>4. MetaInfo(u).outcome = Outcome(u) BY DEF MetaInfo
  <2>5. Outcome(u) = "lost" <=> Lost(u) BY DEF Outcome, Lost
  <2>6. DOMAIN FleetStatus(u) = DOMAIN u.fleet BY DEF FleetStatus
  <2>7. \A ship \in DOMAIN u.fleet :
          FleetStatus(u)[ship].sunk <=> u.fleet[ship] = Cardinality(ship)
    BY DEF FleetStatus
  <2>8. Lost(u) <=> \A ship \in DOMAIN FleetStatus(u) : FleetStatus(u)[ship].sunk
    BY <1>7, <2>6, <2>7 DEF Honest
  <2>9. Scoreboard(u).fired = u.fired /\ Scoreboard(u).received = u.received BY DEF Scoreboard
  <2> QED BY <2>1, <2>3, <2>4, <2>5, <2>8, <2>9
<1>8. Honest(v) /\ Honest(w) /\ Matches(v, w) BY <1>1
<1>9. \A s \in Side : s \in {"red", "blue"} BY DEF Side
<1>10. ASSUME NEW x \in Cells
       PROVE  /\ f.panels["red"].enemy[x] = "o" => f.panels["blue"].own[x] = "o"
              /\ f.panels["red"].enemy[x] = "x" => f.panels["blue"].own[x] \in {"x", "*"}
              /\ f.panels["red"].enemy[x] = "*" => f.panels["blue"].own[x] = "*"
  <2>1. f.panels["red"].enemy[x] = EnemySymbol(v.chart[x])
    BY <1>3, <1>6, <1>7, <1>8 DEF Side
  <2>2. f.panels["blue"].own[x] = OwnSymbol(w.own[x])
    BY <1>3, <1>6, <1>7, <1>8 DEF Side
  <2>3. v.chart[x] \in Marks BY <1>8 DEF Honest
  <2>4. /\ EnemySymbol(v.chart[x]) = "o" => v.chart[x] = "miss"
        /\ EnemySymbol(v.chart[x]) = "x" => v.chart[x] = "hit"
        /\ EnemySymbol(v.chart[x]) = "*" => v.chart[x] = "sunk"
    BY <2>3 DEF Marks, EnemySymbol
  <2>5. /\ w.own[x] = "miss" => OwnSymbol(w.own[x]) = "o"
        /\ w.own[x] = "hit" => OwnSymbol(w.own[x]) = "x"
        /\ w.own[x] = "sunk" => OwnSymbol(w.own[x]) = "*"
    BY DEF OwnSymbol
  <2> QED BY <1>8, <2>1, <2>2, <2>4, <2>5 DEF Matches, Agrees
<1>11. ASSUME NEW s \in Side
       PROVE  /\ \A x \in Cells : f.panels[s].enemy[x] # "!"
              /\ f.meta[s].outcome = "lost" <=>
                   \A ship \in DOMAIN f.fleet[s] : f.fleet[s][ship].sunk
              /\ f.banner = <<"wins", s>> =>
                   f.meta[s].outcome = "won" /\ f.meta[Other(s)].outcome = "lost"
  <2>1. PICK u : u = shown[s] OBVIOUS
  <2>2. Honest(u) BY <1>3, <1>8, <1>9, <2>1
  <2>3. /\ f.panels[s] = Panels(u) /\ f.fleet[s] = FleetStatus(u) /\ f.meta[s] = MetaInfo(u)
    BY <1>6, <2>1
  <2>4. PICK o : o = shown[Other(s)] OBVIOUS
  <2>5. Honest(o) /\ f.meta[Other(s)] = MetaInfo(o)
    BY <1>3, <1>6, <1>8, <1>9, <2>4, Sides
  <2>6. /\ \A x \in Cells : Panels(u).enemy[x] # "!"
        /\ MetaInfo(u).outcome = Outcome(u) /\ (Outcome(u) = "lost" <=> Lost(u))
        /\ Lost(u) <=> \A ship \in DOMAIN FleetStatus(u) : FleetStatus(u)[ship].sunk
    BY <1>7, <2>2
  <2>7. MetaInfo(o).outcome = Outcome(o) /\ (Outcome(o) = "lost" <=> Lost(o)) BY <1>7, <2>5
  <2>8. top = <<"wins", s>> => Outcome(u) = "won" /\ Lost(o)
    BY <1>2, <2>1, <2>4, Sides
  <2> QED BY <1>6, <2>3, <2>5, <2>6, <2>7, <2>8
<1>12. /\ f.score["red"].received <= f.score["blue"].fired
       /\ f.score["red"].fired <= f.score["blue"].received + 1
  <2>1. f.score["red"] = Scoreboard(v) /\ f.score["blue"] = Scoreboard(w)
    BY <1>3, <1>6 DEF Side
  <2>2. /\ Scoreboard(v).fired = v.fired /\ Scoreboard(v).received = v.received
        /\ Scoreboard(w).fired = w.fired /\ Scoreboard(w).received = w.received
    BY <1>7, <1>8
  <2> QED BY <1>8, <2>1, <2>2 DEF Matches, Agrees
<1>13. \E s \in Side : f.meta[s].outcome # "won"
  <2>1. f.meta["red"].outcome = Outcome(v) /\ f.meta["blue"].outcome = Outcome(w)
    BY <1>3, <1>6, <1>7, <1>8 DEF Side
  <2>2. v.won => Outcome(w) = "lost" BY <1>7, <1>8 DEF Matches, Agrees
  <2>3. ~v.won => Outcome(v) # "won" BY DEF Outcome
  <2> QED BY <2>1, <2>2, <2>3 DEF Side
<1>14. screen'[1] = f BY <1>5
<1>15. PICK chart, waters, outcome :
         /\ chart = f.panels["red"].enemy /\ waters = f.panels["blue"].own
         /\ outcome = [s \in Side |-> f.meta[s].outcome]
  OBVIOUS
<1>16. \A x \in Cells : /\ chart[x] = "o" => waters[x] = "o"
                        /\ chart[x] = "x" => waters[x] \in {"x", "*"}
                        /\ chart[x] = "*" => waters[x] = "*"
  BY <1>10, <1>15
<1>17. \A s \in Side :
         /\ \A x \in Cells : f.panels[s].enemy[x] # "!"
         /\ outcome[s] = "lost" <=> \A ship \in DOMAIN f.fleet[s] : f.fleet[s][ship].sunk
         /\ f.banner = <<"wins", s>> => outcome[s] = "won" /\ outcome[Other(s)] = "lost"
  BY <1>11, <1>15, Sides
<1>18. \E s \in Side : outcome[s] # "won" BY <1>13, <1>15
<1> QED BY <1>12, <1>14, <1>15, <1>16, <1>17, <1>18 DEF FrameIsBelievable

-----------------------------------------------------------------------------
(* The invariant *)

LEMMA FrameInit == Init => FrameInv
<1> SUFFICES ASSUME Init PROVE FrameInv
  OBVIOUS
<1>1. main = "setup" /\ banner = <<>> /\ screen = <<>> /\ view = [s \in Side |-> <<>>]
  BY DEF Init
<1>2. \A s \in Side : <<>> # <<"wins", s>> OBVIOUS
<1> QED
  BY <1>1, <1>2 DEF FrameInv, Views, Decided, Undeclared, FrameIsBelievable, HasRed, HasBoth

\* In the loop both captains are there
LEMMA LoopIs ==
    ASSUME Inv, Looping
    PROVE  /\ Linked /\ \A s \in Side : captain[s].live /\ captain[s] \in Captains
           /\ "red" \in Side /\ "blue" \in Side
<1>1. Linked BY DEF Inv, SetUpInv, WhereLinked, Dueling, Looping
<1> QED BY <1>1, TypesAre DEF Inv, SetUpInv, LinkedIsReady, Linked, Side

\* The captains may play on
LEMMA FrameKept ==
    ASSUME Inv, FrameInv, TypeOK', UNCHANGED <<main, view, screen, banner>>,
           \A p \in Side : Grows(captain[p], captain'[p])
    PROVE  FrameInv'
<1>0. "red" \in Side /\ "blue" \in Side BY DEF Side
<1>1. \A p \in Side : captain[p].over => captain'[p].over BY DEF Grows
<1>2. Lost(captain["blue"]) => Lost(captain'["blue"]) BY <1>0 DEF Grows, Lost
<1>3. Views'
  <2>1. Red' = Red /\ Blue' = Blue /\ (HasRed' <=> HasRed) /\ (HasBoth' <=> HasBoth)
    BY DEF Red, Blue, HasRed, HasBoth
  <2>2. HasRed => Precedes(Red, captain'["blue"])
    <3>1. PICK b \in Captains, d \in Captains : b = captain["blue"] /\ d = captain'["blue"]
      BY <1>0, TypesAre DEF Inv, TypeOK
    <3>2. PICK v : v = Red OBVIOUS
    <3>3. HasRed => Honest(v) /\ Precedes(v, b) BY <3>1, <3>2 DEF FrameInv, Views
    <3>4. Grows(b, d) BY <1>0, <3>1
    <3> QED BY <3>1, <3>2, <3>3, <3>4, PrecedesGrows
  <2>3. /\ DOMAIN view' = Side
        /\ HasRed \/ HasBoth => /\ view'["red"] # <<>> /\ Honest(Red)
                                /\ Red.over => captain'["red"].over
        /\ HasBoth => /\ view'["blue"] # <<>> /\ Honest(Blue) /\ Matches(Red, Blue)
                      /\ Blue.over => captain'["blue"].over
    BY <1>0, <1>1 DEF FrameInv, Views
  <2> QED BY <2>1, <2>2, <2>3 DEF Views
<1>4. Decided'
  <2>1. Ended => Ended' BY <1>1 DEF Ended
  <2>2. Red' = Red /\ Blue' = Blue BY DEF Red, Blue
  <2> QED BY <1>2, <2>1, <2>2 DEF FrameInv, Decided
<1>5. Undeclared' BY DEF FrameInv, Undeclared, Looping
<1>6. FrameIsBelievable' BY FrameStays
<1> QED BY <1>3, <1>4, <1>5, <1>6 DEF FrameInv

\* Steps between the frames
LEMMA FrameElsewhere ==
    ASSUME FrameInv, UNCHANGED view,
           main' \notin {"viewBlue", "finalBlue", "readLast", "draw", "drawFinal", "finalRed"},
           screen' = screen \/ screen' = <<>>,
           \/ main' \in {"cleanUp", "offRed", "offBlue", "destroyBlue", "joinBlue", "destroyRed",
                         "joinRed", "destroyLog", "done"}
           \/ \A s \in Side : banner' # <<"wins", s>>
    PROVE  FrameInv'
<1>1. Views' BY DEF FrameInv, Views, HasRed, HasBoth
<1>2. Decided' BY DEF Decided
<1>3. Undeclared' BY DEF Undeclared, Looping
<1>4. FrameIsBelievable'
  <2>1. CASE screen' = screen BY <2>1, FrameStays
  <2>2. CASE screen' = <<>> BY <2>2 DEF FrameIsBelievable
  <2> QED BY <2>1, <2>2
<1> QED BY <1>1, <1>2, <1>3, <1>4 DEF FrameInv

\* The first view of a round
LEMMA ReadRed ==
    ASSUME Inv, FrameInv, NEW from \in {"viewRed", "finalRed"}, NEW to,
           to = IF from = "viewRed" THEN "viewBlue" ELSE "finalBlue",
           GetPublicBoard("red", from, to)
    PROVE  FrameInv'
<1>1. /\ main = from /\ main' = to /\ Looping /\ Looping'
      /\ UNCHANGED <<captain, banner, screen>>
  BY DEF GetPublicBoard, Looping
<1>2. /\ Linked /\ captain["red"].live /\ "red" \in Side BY <1>1, LoopIs
<1>3. PICK v : v = PublicBoard(captain["red"]) OBVIOUS
<1>4. view' = [view EXCEPT !["red"] = <<v>>] BY <1>2, <1>3 DEF GetPublicBoard
<1>5. DOMAIN view = Side BY DEF FrameInv, Views
<1>6. DOMAIN view' = Side /\ view'["red"] = <<v>> BY <1>2, <1>4, <1>5
<1>7. view'["red"] # <<>> /\ Red' = v BY <1>6 DEF Red
<1>8. Honest(v) /\ Precedes(v, captain["blue"]) BY <1>2, <1>3, PrecedesNow
<1>9. v.over = captain["red"].over /\ v.won = captain["red"].won BY <1>3, BoardIs
<1>10. HasRed' /\ ~HasBoth' BY <1>1 DEF HasRed, HasBoth
<1>11. Views' BY <1>1, <1>6, <1>7, <1>8, <1>9, <1>10 DEF Views
<1>12. Decided'
  <2>1. CASE from = "viewRed" BY <1>1, <2>1 DEF Decided
  <2>2. CASE from = "finalRed"
    <3>1. captain["red"].over \/ captain["blue"].over
      BY <1>1, <2>2 DEF FrameInv, Decided, Ended, Side
    <3>2. captain["blue"].won => captain["red"].over
      BY <1>2, Winners DEF OneWinner, Side, Other
    <3>3. Red'.over \/ Lost(captain'["blue"]) BY <1>1, <1>7, <1>9, <3>1, <3>2 DEF Lost
    <3> QED BY <1>1, <2>2, <3>3 DEF Decided
  <2> QED BY <2>1, <2>2
<1>13. Undeclared' BY <1>1 DEF FrameInv, Undeclared
<1>14. FrameIsBelievable' BY <1>1, FrameStays
<1> QED BY <1>11, <1>12, <1>13, <1>14 DEF FrameInv

\* ... and the second
LEMMA ReadBlue ==
    ASSUME Inv, FrameInv, NEW from \in {"viewBlue", "finalBlue"}, NEW to,
           to = IF from = "viewBlue" THEN "readLast" ELSE "drawFinal",
           GetPublicBoard("blue", from, to)
    PROVE  FrameInv'
<1>1. /\ main = from /\ main' = to /\ Looping /\ Looping'
      /\ UNCHANGED <<captain, banner, screen>>
  BY DEF GetPublicBoard, Looping
<1>2. Linked /\ captain["blue"].live /\ "red" \in Side /\ "blue" \in Side BY <1>1, LoopIs
<1>3. PICK w : w = PublicBoard(captain["blue"]) OBVIOUS
<1>4. view' = [view EXCEPT !["blue"] = <<w>>] BY <1>2, <1>3 DEF GetPublicBoard
<1>5. DOMAIN view = Side BY DEF FrameInv, Views
<1>6. DOMAIN view' = Side /\ view'["blue"] = <<w>> /\ view'["red"] = view["red"]
  BY <1>2, <1>4, <1>5
<1>7. view'["blue"] # <<>> /\ Blue' = w /\ Red' = Red BY <1>6 DEF Red, Blue
<1>8. HasRed /\ HasBoth' /\ ~HasRed' BY <1>1 DEF HasRed, HasBoth
<1>9. /\ view["red"] # <<>> /\ Honest(Red) /\ (Red.over => captain["red"].over)
      /\ Precedes(Red, captain["blue"])
  BY <1>8 DEF FrameInv, Views
<1>10. Honest(w) BY <1>2, <1>3, BlueHonest
<1>11. Matches(Red, w)
  <2>1. PICK v, b : v = Red /\ b = captain["blue"] OBVIOUS
  <2> QED BY <1>3, <1>9, <2>1, MatchesIs
<1>12. w.over = captain["blue"].over /\ w.won = captain["blue"].won BY <1>3, BoardIs
<1>13. Views' BY <1>1, <1>6, <1>7, <1>8, <1>9, <1>10, <1>11, <1>12 DEF Views
<1>14. Decided'
  <2>1. CASE from = "viewBlue" BY <1>1, <2>1 DEF Decided
  <2>2. CASE from = "finalBlue"
    <3>1. Red.over \/ Lost(captain["blue"]) BY <1>1, <2>2 DEF FrameInv, Decided
    <3>2. Red'.over \/ Lost(Blue') BY <1>7, <1>12, <3>1 DEF Lost
    <3> QED BY <1>1, <2>2, <3>2 DEF Decided
  <2> QED BY <2>1, <2>2
<1>15. Undeclared' BY <1>1 DEF FrameInv, Undeclared
<1>16. FrameIsBelievable' BY <1>1, FrameStays
<1> QED BY <1>13, <1>14, <1>15, <1>16 DEF FrameInv

LEMMA ReadLastFrames ==
    ASSUME FrameInv, ReadLast
    PROVE  FrameInv'
<1>1. main = "readLast" /\ HasBoth /\ Looping /\ UNCHANGED <<view, screen, captain>>
  BY DEF ReadLast, HasBoth, Looping
<1>2. view["red"] # <<>> /\ view["blue"] # <<>> BY <1>1 DEF FrameInv, Views
<1>3. main' = "draw" /\ (banner' = banner \/ banner' = <<"last">>)
  BY <1>2 DEF ReadLast, Side
<1>4. Views' BY <1>1, <1>3 DEF FrameInv, Views, HasRed, HasBoth, Red, Blue
<1>5. Decided' BY <1>3 DEF Decided
<1>6. ASSUME NEW s \in Side PROVE banner' # <<"wins", s>>
  <2>1. banner # <<"wins", s>> BY <1>1 DEF FrameInv, Undeclared
  <2> PICK b : b = <<"last">> OBVIOUS
  <2> PICK w : w = <<"wins", s>> OBVIOUS
  <2>2. b[1] = "last" BY Zenon
  <2>3. w[1] = "wins" BY Zenon
  <2>4. b # w BY <2>2, <2>3
  <2> QED BY <1>3, <2>1, <2>4
<1>7. Undeclared' BY <1>6 DEF Undeclared
<1>8. FrameIsBelievable' BY <1>1, FrameStays
<1> QED BY <1>4, <1>5, <1>7, <1>8 DEF FrameInv

LEMMA DrawFrames ==
    ASSUME FrameInv, Draw
    PROVE  FrameInv'
<1>1. /\ main = "draw" /\ HasBoth /\ Looping /\ DrawScreen(banner)
      /\ UNCHANGED <<banner, captain>> /\ view' = [s \in Side |-> <<>>]
      /\ main' = IF \E s \in Side : view[s][1].over THEN "finalRed" ELSE "key"
  BY DEF Draw, HasBoth, Looping
<1>2. /\ Honest(Red) /\ Honest(Blue) /\ Matches(Red, Blue)
      /\ Red.over => captain["red"].over
      /\ Blue.over => captain["blue"].over
  BY <1>1 DEF FrameInv, Views
<1>3. \A s \in Side : banner # <<"wins", s>> BY <1>1 DEF FrameInv, Undeclared
<1>4. FrameIsBelievable' BY <1>1, <1>2, <1>3, Drawn
<1>5. Views' BY <1>1 DEF Views, HasRed, HasBoth
<1>6. Decided'
  <2>1. (\E s \in Side : view[s][1].over) => Ended BY <1>2 DEF Ended, Side, Red, Blue
  <2>2. Ended => Ended' BY <1>1 DEF Ended
  <2> QED BY <1>1, <2>1, <2>2 DEF Decided
<1>7. Undeclared' BY <1>1, <1>3 DEF Undeclared
<1> QED BY <1>4, <1>5, <1>6, <1>7 DEF FrameInv

LEMMA DrawFinalFrames ==
    ASSUME FrameInv, DrawFinal
    PROVE  FrameInv'
<1>1. /\ main = "drawFinal" /\ HasBoth /\ main' = "cleanUp" /\ view' = [s \in Side |-> <<>>]
  BY DEF DrawFinal, HasBoth
<1>2. /\ view["red"] # <<>> /\ view["blue"] # <<>>
      /\ Honest(Red) /\ Honest(Blue) /\ Matches(Red, Blue)
  BY <1>1 DEF FrameInv, Views
<1>3. DrawScreen(<<"wins", Winner>>) BY <1>2 DEF DrawFinal, Side
<1>4. Red.over \/ Lost(Blue) BY <1>1 DEF FrameInv, Decided
<1>5. (Red.won => Red.over /\ Lost(Blue)) /\ (Blue.won => Blue.over)
  BY <1>2 DEF Honest, Matches, Agrees
<1>6. ASSUME NEW s \in Side, <<"wins", Winner>> = <<"wins", s>>
      PROVE  Outcome(view[s][1]) = "won" /\ Lost(view[Other(s)][1])
  <2>1. Winner = s
    <3>1. <<"wins", Winner>>[2] = Winner /\ <<"wins", s>>[2] = s OBVIOUS
    <3> QED BY <1>6, <3>1
  <2>2. CASE s = "blue"
    <3>1. Blue.won BY <2>1, <2>2 DEF Winner, Blue
    <3>2. Outcome(Blue) = "won" BY <1>5, <3>1 DEF Outcome
    <3>3. Lost(Red) BY <1>4, <1>5, <3>1 DEF Lost
    <3> QED BY <2>2, <3>2, <3>3 DEF Red, Blue, Other
  <2>3. CASE s = "red"
    <3>1. Red.won BY <2>1, <2>3 DEF Winner, Red
    <3>2. Outcome(Red) = "won" /\ Lost(Blue) BY <1>5, <3>1 DEF Outcome
    <3> QED BY <2>3, <3>2 DEF Red, Blue, Other
  <2> QED BY <2>2, <2>3 DEF Side
<1>7. FrameIsBelievable'
  <2>1. PICK top : top = <<"wins", Winner>> OBVIOUS
  <2>2. DrawScreen(top) BY <1>3, <2>1
  <2> QED BY <1>2, <1>6, <2>1, <2>2, Drawn
<1>8. Views' BY <1>1 DEF Views, HasRed, HasBoth
<1>9. Decided' /\ Undeclared' BY <1>1 DEF Decided, Undeclared, Looping
<1> QED BY <1>7, <1>8, <1>9 DEF FrameInv

LEMMA FrameStep == Inv /\ FrameInv /\ [Next]_vars => FrameInv'
<1> SUFFICES ASSUME Inv, FrameInv, [Next]_vars PROVE FrameInv'
  OBVIOUS
<1>a. Inv' /\ TypeOK /\ TypeOK' BY InvStep DEF Inv
<1>b. \A p \in Side : captain[p] \in Captains BY <1>a, TypesAre
<1>c. captain' = captain => \A p \in Side : Grows(captain[p], captain'[p])
  <2>1. \A c \in Captains : c.fired \in Nat BY DEF Captains
  <2>2. \A n \in Nat : n <= n OBVIOUS
  <2> QED BY <1>b, <2>1, <2>2 DEF Grows
<1>d. main = "setup" \/ main = "starting" \/ Looping => \A s \in Side : banner # <<"wins", s>>
  BY DEF FrameInv, Undeclared
<1>0. CASE UNCHANGED vars BY <1>0, <1>a, <1>c, FrameKept
<1>1. CASE Fatal
  <2>1. main' = "destroyBlue" /\ UNCHANGED <<view, screen>> BY <1>1 DEF Fatal
  <2> QED BY <2>1, FrameElsewhere
<1>2. ASSUME NEW s \in Side, SetUp(s) PROVE FrameInv'
  <2>1. /\ main = "setup" /\ main' \in {"setup", "starting"} /\ UNCHANGED <<view, screen, banner>>
    BY <1>2 DEF SetUp, CreateContext, RegisterCallbacks, InitializeCaptain, AutoPlaceFleet,
                LinkOpponent, StartGame, Advance, At
  <2> QED BY <1>d, <2>1, FrameElsewhere
<1>3. CASE OpenTerminal
  <2>1. /\ main' = "key" /\ UNCHANGED <<view, screen>> /\ banner' = <<"opens", starter>>
    BY <1>3 DEF OpenTerminal
  <2>2. ASSUME NEW s \in Side PROVE banner' # <<"wins", s>>
    <3>1. <<"opens", starter>>[1] = "opens" /\ <<"wins", s>>[1] = "wins" OBVIOUS
    <3> QED BY <2>1, <3>1
  <2> QED BY <2>1, <2>2, FrameElsewhere
<1>4. CASE KeyPressed
  <2>1. /\ main = "key" /\ main' \in {"cleanUp", "viewRed"} /\ screen' = <<>>
        /\ UNCHANGED <<view, banner>>
    BY <1>4 DEF KeyPressed
  <2> QED BY <1>d, <2>1, FrameElsewhere DEF Looping
<1>5. CASE GetPublicBoard("red", "viewRed", "viewBlue") BY <1>5, ReadRed
<1>6. CASE GetPublicBoard("blue", "viewBlue", "readLast") BY <1>6, ReadBlue
<1>7. CASE ReadLast BY <1>7, ReadLastFrames
<1>8. CASE Draw BY <1>8, DrawFrames
<1>9. CASE GetPublicBoard("red", "finalRed", "finalBlue") BY <1>9, ReadRed
<1>10. CASE GetPublicBoard("blue", "finalBlue", "drawFinal") BY <1>10, ReadBlue
<1>11. CASE DrawFinal BY <1>11, DrawFinalFrames
<1>12. CASE Return
  <2>1. /\ UNCHANGED <<view, screen>>
        /\ main' \in {"offRed", "offBlue", "destroyBlue", "joinBlue", "destroyRed", "joinRed",
                      "destroyLog", "done"}
    BY <1>12 DEF Return, Cleanup, UnregisterCallbacks, Shutdown, Join, DestroyLog
  <2> QED BY <2>1, FrameElsewhere
<1>13. ASSUME NEW s \in Side, Processing(s) PROVE FrameInv'
  <2>1. /\ UNCHANGED <<view, screen, banner>>
        /\ main' = main \/ (main' = "started" /\ Launch(s))
    BY <1>13, <1>a, ProcessingKeeps
  <2>2. CASE main' = main
    <3>1. \A p \in Side : Grows(captain[p], captain'[p]) BY <1>13, <1>a, ProcessingGrows
    <3> QED BY <1>a, <2>1, <2>2, <3>1, FrameKept
  <2>3. CASE main' # main
    <3>1. PICK t \in task[s] : t.does = "launch" /\ t.trigger = "opening"
      BY <1>a, <2>1, <2>3, LaunchIs
    <3>2. main = "starting" BY <3>1 DEF Inv, SetUpInv, Opens
    <3> QED BY <1>d, <2>1, <2>3, <3>2, FrameElsewhere
  <2> QED BY <2>2, <2>3
<1>14. ASSUME NEW s \in Side, Delivery(s) PROVE FrameInv'
  <2>1. UNCHANGED <<main, view, screen, banner, captain>> BY <1>14, DeliveryIs
  <2> QED BY <1>a, <1>c, <2>1, FrameKept
<1> QED
  BY <1>0, <1>1, <1>2, <1>3, <1>4, <1>5, <1>6, <1>7, <1>8, <1>9, <1>10, <1>11, <1>12, <1>13, <1>14
  DEF Next, Main, Observe

\* No frame main() draws shows what cannot be in a duel, although the views of its two
\* captains were taken one after the other (the loop of main, drawScreen).
THEOREM FramesAreBelievable == Spec => []FrameIsBelievable
<1>1. Init => Inv /\ FrameInv BY InvInit, FrameInit
<1>2. Inv /\ FrameInv /\ [Next]_vars => (Inv /\ FrameInv)' BY InvStep, FrameStep
<1>3. Inv /\ FrameInv => FrameIsBelievable BY DEF FrameInv
<1> QED BY <1>1, <1>2, <1>3, PTL DEF Spec
===============================================================================
