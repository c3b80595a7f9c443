------------------------------ MODULE CellLock ------------------------------
(***************************************************************************)
(* What the reservations of the fleet manager promise of each grid cell,   *)
(* whatever the dispatcher, the recovery and the traffic control do: a     *)
(* cell has at most one owner, and changes hands only by becoming free.    *)
(* FleetManager implements it with owner <- cellOwners.                    *)
(***************************************************************************)
CONSTANTS Robot, Cell, None

VARIABLE owner

Init == owner = [c \in Cell |-> None]

(* One robot takes free cells and gives back cells of its own, any number  *)
(* of each: a traffic check does both at once.                             *)
Move(r) ==
  \E take, give \in SUBSET Cell :
    /\ \A c \in take : owner[c] = None
    /\ \A c \in give : owner[c] = r
    /\ owner' = [c \in Cell |->
         IF c \in take THEN r ELSE IF c \in give THEN None ELSE owner[c]]

Next == \E r \in Robot : Move(r)

Spec == Init /\ [][Next]_owner

=============================================================================
