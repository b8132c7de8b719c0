----------------------------- MODULE SingletonCell -----------------------------
(***************************************************************************)
(* What Singleton<Derived> promises, without locks and without threads: a  *)
(* cell that holds at most one object, filled only when it is empty, and   *)
(* never with an object that has been in it before.                        *)
(***************************************************************************)
CONSTANTS Objects, Null

VARIABLES
    cell,   \* the object in the cell, or Null
    retired \* the objects that have been removed from it

cellVars == <<cell, retired>>

CellInit == cell = Null /\ retired = {}

Fill ==
    /\ cell = Null
    /\ \E o \in Objects \ retired : cell' = o
    /\ UNCHANGED retired

Clear ==
    /\ cell # Null
    /\ cell' = Null
    /\ retired' = retired \cup {cell}

CellNext == Fill \/ Clear

CellSpec == CellInit /\ [][CellNext]_cellVars
=============================================================================
