----------------------------- MODULE MCUltSync -----------------------------
(* Instances of UltSync for TLC.                                           *)
EXTENDS UltSync, TLC

CONSTANTS e1, e2, t1, t2, t3, p1, p2

(* Both ESs serve p1, or each has a pool of its own.                       *)
SharedPool  == [e \in Xstreams |-> p1]
PrivatePool == (e1 :> p1) @@ (e2 :> p2)

AllInP1 == [t \in Threads |-> p1]
T3InP2  == [t \in Threads |-> IF t = t3 THEN p2 ELSE p1]

AllMpmc == [p \in Pools |-> "MPMC"]
AllMpsc == [p \in Pools |-> "MPSC"]

ByXstream == [p \in Pools |-> "xstream"]
P1ByPool  == [p \in Pools |-> IF p = p1 THEN "pool" ELSE "xstream"]
P2ByPool  == [p \in Pools |-> IF p = p2 THEN "pool" ELSE "xstream"]

NoPairs     == {}
T1JoinsT2   == {<<t1, t2>>}
Chain       == {<<t1, t2>>, <<t2, t3>>}
TwoJoinT2   == {<<t1, t2>>, <<t3, t2>>}
T1JoinsT3   == {<<t1, t3>>}
T1YieldsT2  == {<<t1, t2>>}
T2MovesSelf == {<<t2, t2>>}
T3CancelsT2 == {<<t3, t2>>}
T3MovesSelf == {<<t3, t3>>}
T3MovesT2   == {<<t3, t2>>}
T3CancelsT1 == {<<t3, t1>>}

(* An ES "terminates after finishing execution of all work units" (stream.c*)
(* line 1510): none is in its pool when its scheduler stops.               *)
StopsOnEmptyPool ==
  [][\A e \in Xstreams :
       pc[e] # "stopped" /\ pc'[e] = "stopped" => pool[SchedPool[e]] = {}]_vars
============================================================================
