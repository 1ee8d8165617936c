------------------------------- MODULE KltList -------------------------------
(***************************************************************************)
(* What the global list of KLTs promises: adding is atomic, a pop takes a  *)
(* KLT that is in the list, and it finds none only when the list is empty. *)
(* KltSwitch rests on it; SubAllocator implements it up to the first       *)
(* stale link.                                                             *)
(***************************************************************************)
CONSTANTS Klts, Xstreams

VARIABLES
  listed,    \* the KLTs in the list
  taken,     \* the <<ES, KLT>> pairs of pops that have just taken a KLT
  failed     \* the ESs whose pop has just found none

listVars == <<listed, taken, failed>>

Init == listed = {} /\ taken = {} /\ failed = {}

Add(k) == k \notin listed /\ listed' = listed \cup {k} /\ UNCHANGED <<taken, failed>>

Take(e, k) ==
  /\ k \in listed
  /\ listed' = listed \ {k}
  /\ taken' = taken \cup {<<e, k>>}
  /\ UNCHANGED failed

Use(e, k) ==
  <<e, k>> \in taken /\ taken' = taken \ {<<e, k>>} /\ UNCHANGED <<listed, failed>>

Fail(e) == listed = {} /\ failed' = failed \cup {e} /\ UNCHANGED <<listed, taken>>

Go(e) == e \in failed /\ failed' = failed \ {e} /\ UNCHANGED <<listed, taken>>

TakeAll == listed' = {} /\ UNCHANGED <<taken, failed>>

Next ==
  \/ TakeAll
  \/ \E k \in Klts : Add(k) \/ \E e \in Xstreams : Take(e, k) \/ Use(e, k)
  \/ \E e \in Xstreams : Fail(e) \/ Go(e)

Spec == Init /\ [][Next]_listVars
=============================================================================
