----------------------------- MODULE MCCondVar -----------------------------
(* Instances of CondVar for TLC.                                           *)
EXTENDS CondVar, TLC

CONSTANTS u1, u2, u3, x

(* Readers and writers, ULTs and an external thread.                       *)
Rw == [does  |-> [p \in Callers |-> {"rdlock", "wrlock"}],
       calls |-> [p \in Callers |-> IF p = u3 THEN 0 ELSE 1]]

(* Three takers, two of them with a time-out, and one item.                *)
Queue == [does  |-> (u1 :> {"timed"}) @@ (u2 :> {"take"}) @@ (u3 :> {"timed"}) @@ (x :> {"put"}),
          calls |-> [p \in Callers |-> 1]]

Both == {Rw, Queue}
============================================================================
