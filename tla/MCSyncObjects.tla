--------------------------- MODULE MCSyncObjects ---------------------------
(* Instances of SyncObjects for TLC.                                       *)
EXTENDS SyncObjects, TLC

CONSTANTS u1, u2, x, ev, fu, ba

Kinds == (ev :> "eventual") @@ (fu :> "future") @@ (ba :> "barrier")
KindOf == [o \in Objects |-> Kinds[o]]
SizeOf == [o \in Objects |-> IF o = ba THEN 2 ELSE 1]
UsersOf == [o \in Objects |-> IF o = ev THEN {u1, u2, x} ELSE {u1, x}]
============================================================================
