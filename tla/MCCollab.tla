------------------------------- MODULE MCCollab -------------------------------
(* Small instances of Collab: two users, one or two rooms, two strokes. *)
EXTENDS Collab, TLC

Symmetry == Permutations(Clients) \union Permutations(Rooms)
===============================================================================
