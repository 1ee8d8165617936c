------------------------------ MODULE MCMutex ------------------------------
(* Instances of Mutex for TLC.                                             *)
EXTENDS Mutex, TLC

CONSTANTS u1, u2, u3, x, e1, e2

(* All ESs pop from one pool; the ULTs lock with high priority.            *)
Shared == [serves |-> [t \in Ults |-> Xstreams], low |-> {}, se |-> {u1, u2},
           uses |-> (u1 :> 2) @@ (u2 :> 1) @@ (u3 :> 1) @@ (x :> 0)]

(* Every ULT is on ES e1; some lock with low priority.                     *)
OneEs == [serves |-> [t \in Ults |-> {e1}], low |-> {u1, u2, u3}, se |-> {u1, u2},
          uses |-> (u1 :> 2) @@ (u2 :> 1) @@ (u3 :> 1) @@ (x :> 1)]
Mixed == [OneEs EXCEPT !.low = {u3}]

Sound == {Shared, OneEs, Mixed}

(* Low priority in a shared pool.                                          *)
SharedLow == {[Shared EXCEPT !.low = {u1, u2}]}
============================================================================
