--------------------------- MODULE MCSubAllocator ----------------------------
(* Instances of SubAllocator for TLC.                                      *)
EXTENDS SubAllocator, TLC

CONSTANTS e1, e2, m1, m2, k1, k2, k3, k4

MainOne  == (e1 :> m1)
ListOne  == (e1 :> <<k1>>)
MainTwo  == (e1 :> m1) @@ (e2 :> m2)
ListTwo  == (e1 :> <<k1>>) @@ (e2 :> <<k2>>)

(* Two KLTs that do not exist yet are alike.                               *)
NewAlike == Permutations({k3, k4})

(* Bound: nothing is said of what follows a stale link, nor explored.      *)
Uncut == ~ cut
=============================================================================
