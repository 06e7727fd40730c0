------------------------------ MODULE MCFriends ------------------------------
(* Two users, with two requests of the one and one of the other.           *)
EXTENDS Friends, TLC

CONSTANTS u1, u2, r1, r2, r3, p1, p2, p3

MCFrom == r1 :> u1 @@ r2 :> u1 @@ r3 :> u2
MCTo == r1 :> u2 @@ r2 :> u2 @@ r3 :> u1
Symmetry == Permutations(Handlers) \union Permutations({r1, r2})
=============================================================================
