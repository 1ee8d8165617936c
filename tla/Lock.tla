-------------------------------- MODULE Lock --------------------------------
(***************************************************************************)
(* What a mutex promises: one owner at a time.  The owner gives the lock   *)
(* up, or hands it over to somebody else without giving it up in between.  *)
(***************************************************************************)
CONSTANT Callers

VARIABLE owners

Init == owners = {}

Acquire(p) == owners = {} /\ owners' = {p}

Release(p) == owners = {p} /\ owners' = {}

HandOver(p, q) == owners = {p} /\ q # p /\ owners' = {q}

Next ==
  \E p \in Callers : Acquire(p) \/ Release(p) \/ \E q \in Callers : HandOver(p, q)

Spec == Init /\ [][Next]_owners
=============================================================================
