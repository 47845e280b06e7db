------------------------------- MODULE Shelf -------------------------------
(***************************************************************************)
(* What a glovebox promises: documents are put on a shelf and taken off    *)
(* it, and the oldest give way when it is full.  A document that has left  *)
(* the shelf never comes back.                                             *)
(***************************************************************************)
EXTENDS Naturals

CONSTANT Documents   \* numbered in the order they were made

VARIABLES shown, left

shelfVars == <<shown, left>>

Init == shown = {} /\ left = {}

(* What leaves unasked is older than all that stays. *)
MakesRoom(on) == /\ shown' \subseteq on
                 /\ \A d \in on \ shown', e \in shown' : d < e

(* A document that arrives may be too old to be shown at all. *)
Put(d) == /\ d \notin shown \union left
          /\ MakesRoom(shown \union {d})
          /\ left' = left \union ((shown \union {d}) \ shown')

Take(d) == /\ d \in shown
           /\ MakesRoom(shown \ {d})
           /\ left' = left \union (shown \ shown')

(* Something else arrives and takes a place. *)
Crowd == /\ MakesRoom(shown)
         /\ left' = left \union (shown \ shown')

Next == Crowd \/ \E d \in Documents : Put(d) \/ Take(d)

Spec == Init /\ [][Next]_shelfVars
=============================================================================
