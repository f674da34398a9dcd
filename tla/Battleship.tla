------------------------------ MODULE Battleship ------------------------------
(***************************************************************************)
(* The game the two captains of the torpedo example promise to play: each  *)
(* places a fleet, then they shoot in turn at cells of the other's board   *)
(* that were not shot at before, until a fleet is sunk.                    *)
(***************************************************************************)
EXTENDS Naturals, FiniteSets

CONSTANTS Cells, Fleets

VARIABLES
    first,  \* the side that opens the duel
    fleet,  \* of each side, a set of ships; a ship is a set of cells
    shots   \* of each side, the cells of its board that were shot at

Side == {"red", "blue"}
Other(s) == IF s = "red" THEN "blue" ELSE "red"

Sunk(s) == fleet[s] # {} /\ UNION fleet[s] \subseteq shots[s]

Turn == IF Cardinality(shots["red"]) = Cardinality(shots["blue"])
          THEN first ELSE Other(first)

Init ==
    /\ first \in Side
    /\ fleet = [s \in Side |-> {}]
    /\ shots = [s \in Side |-> {}]

Place(s) ==
    /\ fleet[s] = {}
    /\ \E f \in Fleets : fleet' = [fleet EXCEPT ![s] = f]
    /\ UNCHANGED <<first, shots>>

Shoot(s) ==
    /\ Turn = s
    /\ \A p \in Side : fleet[p] # {} /\ ~Sunk(p)
    /\ \E x \in Cells \ shots[Other(s)] :
          shots' = [shots EXCEPT ![Other(s)] = @ \cup {x}]
    /\ UNCHANGED <<first, fleet>>

Next == \E s \in Side : Place(s) \/ Shoot(s)

Spec == Init /\ [][Next]_<<first, fleet, shots>>
================================================================================
