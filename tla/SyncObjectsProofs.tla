-------------------------- MODULE SyncObjectsProofs --------------------------
(***************************************************************************)
(* The safety properties of SyncObjects, for all sets of callers, ESs and  *)
(* objects.                                                                *)
(*                                                                         *)
(* The lists: the sleepers of an object are those that the links lead to   *)
(* from its head or, while a waker is at work, from the one that it wakes  *)
(* next (ListInv).                                                         *)
(*                                                                         *)
(* The barriers: the waiters are the sleepers, and have arrived once more  *)
(* than the other users (WaitersInv, RoundInv), so that nobody is ahead by *)
(* two.                                                                    *)
(***************************************************************************)
EXTENDS SyncObjects, FiniteSetTheorems, TLAPS

-----------------------------------------------------------------------------
(* The inductive invariant.                                                *)

(* Caller q waits for object o and no waker has come to it.                *)
Sleeps(q, o) == Waits(q, o) /\ ~ Released(q)

Sleepers(o) == {q \in Callers : Sleeps(q, o)}

(* A ULT that executes is in no pool; between its entry in a list and its  *)
(* suspension it has a BLOCK request, for which its waker waits.           *)
SchedInv ==
  /\ \A e \in Xstreams : cur[e] \notin pool
  /\ \A p \in Callers : pc[p] = "suspend" => p \in Ults /\ p \in blocking /\ Executes(p)

(* The lock of an object is held by its waker or, once the object has been *)
(* freed, for ever.  Only one caller frees an object, which nobody waits   *)
(* for any more.                                                           *)
WorkInv ==
  /\ \A p \in Callers : pc[p] # "user" => obj[p] \in Objects
  /\ \A p \in Callers : pc[p] \in {"wake", "last"} => lock[obj[p]] = p
  /\ \A o \in Objects \ freed : ~ Unlocked(o) =>
       pc[lock[o]] \in {"wake", "last"} /\ obj[lock[o]] = o
  /\ \A p \in Callers : pc[p] = "last" => obj[p] \in Lists
  /\ \A p, q \in Callers, o \in Objects : Frees(p, o) /\ Frees(q, o) => p = q
  /\ \A p, q \in Callers, o \in Objects : Frees(p, o) => ~ Waits(q, o)

Linked(q) == \E r \in Callers : p_next[r] = q

(* The ends of the list of an object that nobody is at work on.            *)
HeadInv ==
  \A o \in Lists : Unlocked(o) =>
    /\ p_head[o] = None <=> p_tail[o] = None
    /\ p_head[o] # None => Sleeps(p_head[o], o) /\ ~ Linked(p_head[o])
    /\ p_tail[o] # None => Sleeps(p_tail[o], o) /\ p_next[p_tail[o]] = None
    /\ ready[o] => p_head[o] = None

(* The waiter that a waker is about to wake is the first of those left.    *)
WakeInv ==
  \A p \in Callers : pc[p] = "wake" /\ obj[p] \in Lists =>
    p_unit[p] # None /\ Sleeps(p_unit[p], obj[p]) /\ ~ Linked(p_unit[p])

(* A link goes from one sleeper of an object to another.                   *)
NextInv ==
  /\ \A q \in Callers : p_next[q] # None =>
       obj[q] \in Lists /\ Sleeps(q, obj[q]) /\ Sleeps(p_next[q], obj[q])
  /\ \A q, r \in Callers : p_next[q] = p_next[r] /\ p_next[q] # None => q = r

(* The links lead to every sleeper.                                        *)
ReachInv ==
  /\ \A o \in Lists \ freed : Unlocked(o) => Sleepers(o) \subseteq From(p_head[o])
  /\ \A p \in Callers :
       /\ pc[p] = "wake" /\ obj[p] \in Lists => Sleepers(obj[p]) \subseteq From(p_unit[p])
       /\ pc[p] = "last" => Sleepers(obj[p]) = {}

(* The waiters of a barrier are its sleepers, each there once.             *)
WaitersInv ==
  \A o \in Barriers :
    /\ ~ ready[o]
    /\ \A i, j \in 1..Len(waiters[o]) : waiters[o][i] = waiters[o][j] => i = j
    /\ \A i \in 1..Len(waiters[o]) : waiters[o][i] \in Uses[o]
    /\ Range(waiters[o]) = Sleepers(o)
    /\ Unlocked(o) => Cardinality(Range(waiters[o])) = counter[o]

(* The users of a barrier have arrived equally often, the waiters of the   *)
(* current round once more.                                                *)
RoundInv ==
  \A o \in Barriers : \E r \in Nat : \A p \in Uses[o] :
    arrived[o][p] = IF Unlocked(o) /\ p \in Range(waiters[o]) THEN r + 1 ELSE r

CountInv == \A o \in Objects, p \in Callers : arrived[o][p] <= calls[p]

ListInv == HeadInv /\ WakeInv /\ NextInv /\ ReachInv

BarrierInv == WaitersInv /\ RoundInv /\ CountInv

IInv == TypeOK /\ SchedInv /\ WorkInv /\ NoUseAfterFree /\ ListInv /\ BarrierInv
-----------------------------------------------------------------------------
(* How the steps change who sleeps.                                        *)

(* What the lemmas of this section need of the types.                      *)
SleepTypeOK ==
  /\ cur \in [Xstreams -> Ults \cup {None}]
  /\ pool \in SUBSET Ults /\ blocking \in SUBSET Ults
  /\ pc \in [Callers -> Labels] /\ obj \in [Callers -> Objects \cup {None}]
  /\ signalled \in SUBSET Externals
  /\ None \notin Callers /\ Ults \cap Externals = {}

LEMMA SleepTyped == ASSUME ObjectsAssumption, TypeOK PROVE SleepTypeOK
BY DEF TypeOK, SchedTypeOK, ObjectsAssumption, SleepTypeOK

(* A caller that blocks on object o sleeps for o.                          *)
LEMMA BlockSleeps ==
  ASSUME ObjectsAssumption, TypeOK, SchedInv, NEW p \in Callers, NEW o \in Objects,
         pc[p] = "user", Executes(p), obj' = [obj EXCEPT ![p] = o], Block(p)
  PROVE  /\ SchedInv'
         /\ \A q \in Callers : \A b : Sleeps(q, b)' <=> Sleeps(q, b) \/ (q = p /\ b = o)
<1>t. SleepTypeOK
  BY SleepTyped
<1>1. CASE p \in Ults
  <2>1. /\ blocking' = blocking \cup {p} /\ pc' = [pc EXCEPT ![p] = "suspend"]
        /\ UNCHANGED <<cur, pool, signalled>>
    BY <1>1 DEF Block, SetBlocked, Goto
  <2>2. p \notin pool
    BY <1>t, <1>1 DEF SleepTypeOK, Executes, SchedInv
  <2>3. SchedInv'
    BY <2>1, <1>1, <1>t DEF SleepTypeOK, SchedInv, Callers, Executes
  <2>4. ~ Waits(p, o) /\ Waits(p, o)' /\ ~ Released(p)'
    BY <2>1, <2>2, <1>t, <1>1 DEF SleepTypeOK, Waits, Released, Callers
  <2>5. ASSUME NEW q \in Callers, NEW b
        PROVE  Sleeps(q, b)' <=> Sleeps(q, b) \/ (q = p /\ b = o)
    <3>1. CASE q = p
      BY <3>1, <2>1, <2>4, <1>t DEF SleepTypeOK, Sleeps, Waits
    <3>2. CASE q # p
      BY <3>2, <2>1, <1>t DEF SleepTypeOK, Sleeps, Waits, Released, Executes
    <3> QED BY <3>1, <3>2
  <2> QED BY <2>3, <2>5
<1>2. CASE p \in Externals
  <2>1. /\ signalled' = signalled \ {p} /\ pc' = [pc EXCEPT ![p] = "waiting"]
        /\ UNCHANGED <<cur, pool, blocking>> /\ p \notin Ults
    BY <1>2, <1>t DEF SleepTypeOK, Block, Goto, schedVars
  <2>3. SchedInv'
    BY <2>1, <1>2, <1>t DEF SleepTypeOK, SchedInv, Callers, Executes
  <2>5. ASSUME NEW q \in Callers, NEW b
        PROVE  Sleeps(q, b)' <=> Sleeps(q, b) \/ (q = p /\ b = o)
    <3>1. CASE q = p
      BY <3>1, <2>1, <1>t DEF SleepTypeOK, Sleeps, Waits, Released
    <3>2. CASE q # p
      BY <3>2, <2>1, <1>t DEF SleepTypeOK, Sleeps, Waits, Released, Executes
    <3> QED BY <3>1, <3>2
  <2> QED BY <2>3, <2>5
<1> QED BY <1>1, <1>2 DEF Callers

(* A sleeper that is released does not sleep any more.                     *)
LEMMA ReleaseSleeps ==
  ASSUME ObjectsAssumption, TypeOK, SchedInv, NEW u \in Callers, NEW p \in Callers, NEW a,
         Sleeps(u, a), Release(u), UNCHANGED obj,
         pc[p] = "wake", NEW l \in {"wake", "last"}, pc' = [pc EXCEPT ![p] = l]
  PROVE  /\ SchedInv'
         /\ \A q \in Callers : \A b : Sleeps(q, b)' <=> Sleeps(q, b) /\ q # u
<1>t. SleepTypeOK
  BY SleepTyped
<1>3. \A q \in Callers : \A b : Waits(q, b)' <=> Waits(q, b)
  BY <1>t DEF SleepTypeOK, Waits
<1>1. CASE u \in Ults
  <2>1. u \notin blocking /\ pool' = pool \cup {u} /\ UNCHANGED <<cur, blocking, signalled>>
    BY <1>1 DEF Release, SetReady
  <2>2. pc[u] = "waiting" /\ ~ Executes(u)
    BY <2>1, <1>1 DEF Sleeps, Waits, Released, SchedInv
  <2>3. SchedInv'
    BY <2>1, <2>2, <1>t DEF SleepTypeOK, SchedInv, Executes
  <2>4. \A q \in Callers : Released(q)' <=> Released(q) \/ q = u
    BY <2>1, <2>2, <1>t DEF SleepTypeOK, Released, Executes
  <2> QED BY <2>3, <2>4, <1>3 DEF Sleeps
<1>2. CASE u \in Externals
  <2>1. signalled' = signalled \cup {u} /\ UNCHANGED <<cur, pool, blocking>>
    BY <1>2, <1>t DEF SleepTypeOK, Release, schedVars
  <2>3. SchedInv'
    BY <2>1, <1>t DEF SleepTypeOK, SchedInv, Executes
  <2>4. \A q \in Callers : Released(q)' <=> Released(q) \/ q = u
    BY <2>1, <1>t DEF SleepTypeOK, Released, Executes
  <2> QED BY <2>3, <2>4, <1>3 DEF Sleeps
<1> QED BY <1>1, <1>2 DEF Callers

(* A caller that is at work neither falls asleep nor wakes anybody.        *)
LEMMA BusySleeps ==
  ASSUME ObjectsAssumption, TypeOK, SchedInv, NEW p \in Callers,
         pc[p] \notin {"suspend", "waiting"},
         NEW l \in Labels \ {"suspend", "waiting"}, pc' = [pc EXCEPT ![p] = l],
         NEW o, obj' = [obj EXCEPT ![p] = o], UNCHANGED <<schedVars, signalled>>
  PROVE  /\ SchedInv'
         /\ \A q \in Callers : \A b : Sleeps(q, b)' <=> Sleeps(q, b)
<1>t. SleepTypeOK
  BY SleepTyped
<1>1. SchedInv'
  BY <1>t DEF SleepTypeOK, SchedInv, Executes, schedVars
<1>2. ASSUME NEW q \in Callers, NEW b
      PROVE  Sleeps(q, b)' <=> Sleeps(q, b)
  BY <1>t DEF SleepTypeOK, Sleeps, Waits, Released, Executes, schedVars
<1> QED BY <1>1, <1>2

(* Nor does one that suspends itself, or comes back after it was woken.    *)
LEMMA SuspendSleeps ==
  ASSUME ObjectsAssumption, TypeOK, SchedInv, NEW t \in Callers, Suspend(t)
  PROVE  /\ SchedInv'
         /\ \A q \in Callers : \A b : /\ Waits(q, b)' <=> Waits(q, b)
                                      /\ Sleeps(q, b)' <=> Sleeps(q, b)
<1>t. SleepTypeOK
  BY SleepTyped
<1>1. /\ t \in Ults /\ pc[t] = "suspend" /\ pc' = [pc EXCEPT ![t] = "waiting"]
      /\ cur' = [e \in Xstreams |-> IF cur[e] = t THEN None ELSE cur[e]]
      /\ blocking' = blocking \ {t} /\ Executes(t)
      /\ UNCHANGED <<pool, obj, signalled>>
  BY DEF Suspend, SuspendUlt, BackToSched, Goto
<1>2. t \notin pool /\ t \notin signalled
  BY <1>1, <1>t DEF SleepTypeOK, SchedInv, Executes
<1>3. ~ Executes(t)'
  BY <1>1, <1>t DEF SleepTypeOK, Executes, Callers
<1>4. \A q \in Callers : q # t => (Executes(q)' <=> Executes(q))
  BY <1>1, <1>t DEF SleepTypeOK, Executes, Callers
<1>5. SchedInv'
  BY <1>1, <1>4, <1>t DEF SleepTypeOK, SchedInv, Callers
<1>6. ASSUME NEW q \in Callers, NEW b
      PROVE  /\ Waits(q, b)' <=> Waits(q, b)
             /\ Sleeps(q, b)' <=> Sleeps(q, b)
  <2>1. CASE q = t
    BY <2>1, <1>1, <1>2, <1>3, <1>t DEF SleepTypeOK, Sleeps, Waits, Released
  <2>2. CASE q # t
    BY <2>2, <1>1, <1>4, <1>t DEF SleepTypeOK, Sleeps, Waits, Released
  <2> QED BY <2>1, <2>2
<1> QED BY <1>5, <1>6

LEMMA ReturnSleeps ==
  ASSUME ObjectsAssumption, TypeOK, SchedInv, NEW p \in Callers, WaitReturn(p)
  PROVE  /\ SchedInv'
         /\ \A q \in Callers : \A b : /\ Waits(q, b)' => Waits(q, b)
                                      /\ Sleeps(q, b)' <=> Sleeps(q, b)
<1>t. SleepTypeOK
  BY SleepTyped
<1>1. /\ pc[p] = "waiting" /\ pc' = [pc EXCEPT ![p] = "user"] /\ Woken(p)
      /\ UNCHANGED <<cur, pool, blocking, obj, signalled>>
  BY DEF WaitReturn, Goto, schedVars
<1>2. Released(p)
  BY <1>1 DEF Woken, Released
<1>3. SchedInv'
  BY <1>1, <1>t DEF SleepTypeOK, SchedInv, Executes
<1>4. ASSUME NEW q \in Callers, NEW b
      PROVE  /\ Waits(q, b)' => Waits(q, b)
             /\ Sleeps(q, b)' <=> Sleeps(q, b)
  <2>1. CASE q = p
    BY <2>1, <1>1, <1>2, <1>t DEF SleepTypeOK, Sleeps, Waits
  <2>2. CASE q # p
    BY <2>2, <1>1, <1>t DEF SleepTypeOK, Sleeps, Waits, Released, Executes
  <2> QED BY <2>1, <2>2
<1> QED BY <1>3, <1>4

(* A sleeper is not dispatched, and one that was woken stays so.           *)
LEMMA SchedSleeps ==
  ASSUME ObjectsAssumption, TypeOK, SchedInv, NEW t \in Ults,
         Yield(t) \/ \E e \in Xstreams : Run(e, t)
  PROVE  /\ SchedInv'
         /\ \A q \in Callers : \A b : Sleeps(q, b)' <=> Sleeps(q, b)
<1>t. SleepTypeOK
  BY SleepTyped
<1>1. CASE Yield(t)
  <2>1. /\ pc[t] = "user" /\ Executes(t) /\ pool' = pool \cup {t}
        /\ cur' = [e \in Xstreams |-> IF cur[e] = t THEN None ELSE cur[e]]
        /\ UNCHANGED <<blocking, pc, obj, signalled>>
    BY <1>1 DEF Yield, YieldUlt, BackToSched, callVars
  <2>2. \A q \in Callers : q # t => (Executes(q)' <=> Executes(q))
    BY <2>1, <1>t DEF SleepTypeOK, Executes, Callers
  <2>3. SchedInv'
    BY <2>1, <2>2, <1>t DEF SleepTypeOK, SchedInv, Callers
  <2>4. ASSUME NEW q \in Callers, NEW b
        PROVE  Sleeps(q, b)' <=> Sleeps(q, b)
    BY <2>1, <2>2 DEF Sleeps, Waits, Released
  <2> QED BY <2>3, <2>4
<1>2. CASE \E e \in Xstreams : Run(e, t)
  <2>0. PICK e \in Xstreams : Run(e, t)
    BY <1>2
  <2>1. /\ cur[e] = None /\ t \in pool /\ pool' = pool \ {t}
        /\ cur' = [cur EXCEPT ![e] = t]
        /\ UNCHANGED <<blocking, pc, obj, signalled>>
    BY <2>0 DEF Run, Dispatch, callVars
  <2>2. \A q \in Callers : Executes(q)' <=> Executes(q) \/ q = t
    BY <2>1, <1>t DEF SleepTypeOK, Executes, Callers
  <2>3. SchedInv'
    BY <2>1, <2>2, <1>t DEF SleepTypeOK, SchedInv, Callers
  <2>4. pc[t] # "suspend"
    BY <2>1, <1>t DEF SleepTypeOK, SchedInv, Executes, Callers
  <2>5. ASSUME NEW q \in Callers, NEW b
        PROVE  Sleeps(q, b)' <=> Sleeps(q, b)
    BY <2>1, <2>2, <2>4, <1>t DEF SleepTypeOK, Sleeps, Waits, Released
  <2> QED BY <2>3, <2>5
<1> QED BY <1>1, <1>2
-----------------------------------------------------------------------------
(* Steps that leave the lists, or the barriers, as they are.               *)
LEMMA ListsKept ==
  ASSUME ObjectsAssumption, TypeOK, ListInv, UNCHANGED listVars, freed \subseteq freed',
         \A q \in Callers, b \in Lists : Sleeps(q, b)' <=> Sleeps(q, b),
         \A p \in Callers : pc'[p] \in {"wake", "last"} /\ obj'[p] \in Lists =>
           \/ pc'[p] = pc[p] /\ obj'[p] = obj[p] /\ p_unit'[p] = p_unit[p]
           \/ /\ pc'[p] = "wake" /\ Unlocked(obj'[p]) /\ obj'[p] \notin freed
              /\ p_head[obj'[p]] # None /\ p_unit'[p] = p_head[obj'[p]],
         \A p \in Callers : pc'[p] = "last" => obj'[p] \in Lists,
         \A b \in Lists : Unlocked(b)' => Unlocked(b) /\ (ready'[b] => ready[b] \/ p_head[b] = None)
  PROVE  ListInv'
<1>1. \A b, q : Linked(q)' <=> Linked(q)
  BY DEF Linked, listVars
<1>2. \A q : From(q)' = From(q)
  BY DEF From, ClosedFrom, listVars
<1>3. \A b \in Lists : Sleepers(b)' = Sleepers(b)
  BY DEF Sleepers
<1>4. /\ p_next' = p_next /\ p_head' = p_head /\ p_tail' = p_tail
      /\ p_next \in [Callers -> Callers \cup {None}]
      /\ p_head \in [Objects -> Callers \cup {None}]
      /\ p_tail \in [Objects -> Callers \cup {None}]
      /\ p_unit \in [Callers -> Callers \cup {None}]
  BY DEF TypeOK, listVars
<1>5. HeadInv'
  BY <1>1, <1>4 DEF ListInv, HeadInv, Lists
<1>6. WakeInv'
  <2> SUFFICES ASSUME NEW p \in Callers, (pc[p] = "wake" /\ obj[p] \in Lists)'
               PROVE  (p_unit[p] # None /\ Sleeps(p_unit[p], obj[p]) /\ ~ Linked(p_unit[p]))'
    BY DEF WakeInv
  <2>1. CASE pc[p] = "wake" /\ obj'[p] = obj[p] /\ p_unit'[p] = p_unit[p]
    BY <2>1, <1>1, <1>4 DEF ListInv, WakeInv
  <2>2. CASE Unlocked(obj'[p]) /\ p_head[obj'[p]] # None /\ p_unit'[p] = p_head[obj'[p]]
    <3>1. p_head[obj'[p]] \in Callers
      BY <2>2, <1>4 DEF Lists
    <3> QED BY <2>2, <3>1, <1>1 DEF ListInv, HeadInv
  <2> QED BY <2>1, <2>2
<1>7. \A q, b : Sleeps(q, b) => obj[q] = b
  BY DEF Sleeps, Waits
<1>8. \A q, b : Sleeps(q, b)' => obj'[q] = b
  BY DEF Sleeps, Waits
<1>9. NextInv'
  BY <1>4, <1>7, <1>8 DEF ListInv, NextInv
<1>10. ReachInv'
  <2>1. ASSUME NEW o \in Lists \ freed', Unlocked(o)'
        PROVE  (Sleepers(o) \subseteq From(p_head[o]))'
    <3>1. From(p_head[o])' = From(p_head[o])
      BY <1>4 DEF From, ClosedFrom
    <3> QED BY <2>1, <3>1, <1>3 DEF ListInv, ReachInv
  <2>2. ASSUME NEW p \in Callers, (pc[p] = "wake" /\ obj[p] \in Lists)'
        PROVE  (Sleepers(obj[p]) \subseteq From(p_unit[p]))'
    <3>1. CASE pc[p] = "wake" /\ obj'[p] = obj[p] /\ p_unit'[p] = p_unit[p]
      <4>1. From(p_unit[p])' = From(p_unit[p])
        BY <3>1, <1>4 DEF From, ClosedFrom
      <4>2. Sleepers(obj[p])' = Sleepers(obj[p])
        BY <2>2, <3>1 DEF Sleepers
      <4> QED BY <2>2, <3>1, <4>1, <4>2 DEF ListInv, ReachInv
    <3>2. CASE /\ Unlocked(obj'[p]) /\ p_unit'[p] = p_head[obj'[p]]
               /\ obj'[p] \in Lists \ freed
      <4>1. From(p_unit[p])' = From(p_head[obj'[p]])
        BY <3>2, <1>4 DEF From, ClosedFrom
      <4>2. Sleepers(obj[p])' = Sleepers(obj'[p])
        BY <3>2 DEF Sleepers
      <4> QED BY <3>2, <4>1, <4>2 DEF ListInv, ReachInv
    <3> QED BY <2>2, <3>1, <3>2
  <2>3. ASSUME NEW p \in Callers, (pc[p] = "last")'
        PROVE  (Sleepers(obj[p]) = {})'
    <3>1. pc[p] = "last" /\ obj'[p] = obj[p] /\ obj[p] \in Lists
      BY <2>3
    <3>2. Sleepers(obj[p])' = Sleepers(obj[p])
      BY <3>1 DEF Sleepers
    <3> QED BY <3>1, <3>2 DEF ListInv, ReachInv
  <2> QED BY <2>1, <2>2, <2>3 DEF ReachInv
<1> QED BY <1>5, <1>6, <1>9, <1>10 DEF ListInv

LEMMA BarriersKept ==
  ASSUME ObjectsAssumption, TypeOK, BarrierInv,
         UNCHANGED <<waiters, arrived>>, \A p \in Callers : calls'[p] >= calls[p],
         \A q \in Callers, b \in Barriers : Sleeps(q, b)' <=> Sleeps(q, b),
         calls' \in [Callers -> 0..MaxCalls],
         \A b \in Barriers : counter'[b] = counter[b] /\ ready'[b] = ready[b] /\ lock'[b] = lock[b]
  PROVE  BarrierInv'
<1>1. \A b \in Barriers : Sleepers(b)' = Sleepers(b) /\ (Unlocked(b)' <=> Unlocked(b))
  BY DEF Sleepers, Unlocked
<1>2. WaitersInv'
  BY <1>1 DEF BarrierInv, WaitersInv
<1>3. RoundInv'
  BY <1>1 DEF BarrierInv, RoundInv
<1>4. CountInv'
  <2>1. /\ arrived \in [Objects -> [Callers -> 0..MaxCalls]] /\ calls \in [Callers -> 0..MaxCalls]
        /\ MaxCalls \in Nat
    BY DEF TypeOK, ObjectsAssumption
  <2> QED BY <2>1 DEF BarrierInv, CountInv
<1> QED BY <1>2, <1>3, <1>4 DEF BarrierInv
-----------------------------------------------------------------------------
(* The steps preserve the invariant.                                       *)
LEMMA WaitStep ==
  ASSUME ObjectsAssumption, IInv, NEW p \in Callers, NEW o \in Objects, Wait(p, o)
  PROVE  IInv'
<1> USE DEF IInv
<1>1. /\ o \in Lists /\ o \notin freed /\ lock[o] = None /\ ~ ready[o]
      /\ pc[p] = "user" /\ Executes(p) /\ \A q \in Callers : ~ Frees(q, o)
      /\ calls[p] < MaxCalls /\ calls' = [calls EXCEPT ![p] = @ + 1]
      /\ obj' = [obj EXCEPT ![p] = o] /\ Block(p)
      /\ p_next' = [q \in Callers |-> IF q = p THEN None
                                      ELSE IF q = p_tail[o] THEN p ELSE p_next[q]]
      /\ p_head' = [p_head EXCEPT ![o] = IF @ = None THEN p ELSE @]
      /\ p_tail' = [p_tail EXCEPT ![o] = p]
      /\ UNCHANGED <<p_unit, lock, ready, counter, waiters, freed, arrived>>
  BY DEF Wait, Calls, Unlocked
<1>2. PICK l \in {"suspend", "waiting"} : pc' = [pc EXCEPT ![p] = l]
  BY <1>1 DEF Block, Goto
<1>3. SchedInv' /\ \A q \in Callers : \A b : Sleeps(q, b)' <=> Sleeps(q, b) \/ (q = p /\ b = o)
  BY <1>1, BlockSleeps
<1>4. TypeOK'
  <2>1. SchedTypeOK' /\ signalled' \in SUBSET Externals
    BY <1>1 DEF TypeOK, SchedTypeOK, Block, SetBlocked, schedVars
  <2>2. /\ pc' \in [Callers -> Labels] /\ obj' \in [Callers -> Objects \cup {None}]
        /\ calls' \in [Callers -> 0..MaxCalls]
    BY <1>1, <1>2 DEF TypeOK, Labels, ObjectsAssumption
  <2>3. /\ p_next' \in [Callers -> Callers \cup {None}]
        /\ p_head' \in [Objects -> Callers \cup {None}]
        /\ p_tail' \in [Objects -> Callers \cup {None}]
    BY <1>1 DEF TypeOK
  <2> QED BY <1>1, <2>1, <2>2, <2>3 DEF TypeOK
<1>5. WorkInv'
  BY <1>1, <1>2 DEF WorkInv, TypeOK, Lists, Frees, Waits, Unlocked
<1>6. NoUseAfterFree'
  BY <1>1, <1>2 DEF NoUseAfterFree, TypeOK
<1>7. /\ p_next \in [Callers -> Callers \cup {None}] /\ None \notin Callers
      /\ p_head \in [Objects -> Callers \cup {None}]
      /\ p_tail \in [Objects -> Callers \cup {None}]
      /\ obj \in [Callers -> Objects \cup {None}] /\ pc \in [Callers -> Labels]
  BY DEF TypeOK, ObjectsAssumption
<1>8. (\A b : ~ Sleeps(p, b)) /\ ~ Linked(p) /\ p_next[p] = None
  BY <1>1, <1>7 DEF Sleeps, Waits, Linked, ListInv, NextInv
<1>9. \A q, b : Sleeps(q, b) => obj[q] = b
  BY DEF Sleeps, Waits
<1>10. HeadInv'
  <2> SUFFICES ASSUME NEW b \in Lists, Unlocked(b)'
               PROVE  (/\ p_head[b] = None <=> p_tail[b] = None
                       /\ p_head[b] # None => Sleeps(p_head[b], b) /\ ~ Linked(p_head[b])
                       /\ p_tail[b] # None => Sleeps(p_tail[b], b) /\ p_next[p_tail[b]] = None
                       /\ ready[b] => p_head[b] = None)'
    BY DEF HeadInv
  <2>1. CASE b = o
    BY <2>1, <1>1, <1>3, <1>7, <1>8 DEF ListInv, HeadInv, Linked, Unlocked, Lists
  <2>2. CASE b # o
    BY <2>2, <1>1, <1>3, <1>7, <1>8, <1>9 DEF ListInv, HeadInv, Linked, Unlocked, Lists
  <2> QED BY <2>1, <2>2
<1>11. WakeInv'
  BY <1>1, <1>2, <1>3, <1>7, <1>8 DEF ListInv, WakeInv, Linked, TypeOK
<1>12. NextInv'
  BY <1>1, <1>2, <1>3, <1>7, <1>8, <1>9 DEF ListInv, NextInv, Linked, HeadInv, Unlocked
<1>13. ReachInv'
  <2>1. ASSUME NEW S \in SUBSET Callers, \A q \in S : p_next'[q] \in S \cup {None}
        PROVE  \A q \in S : p_next[q] \in S \cup {None}
    <3>1. p_tail[o] # None => p_next[p_tail[o]] = None
      BY <1>1 DEF ListInv, HeadInv, Unlocked
    <3>2. \A q \in Callers : p_next[q] = None \/ p_next[q] = p_next'[q]
      BY <3>1, <1>1, <1>7, <1>8
    <3> QED BY <2>1, <3>2
  <2>2. ASSUME NEW b \in Lists \ freed, Unlocked(b)'
        PROVE  (Sleepers(b) \subseteq From(p_head[b]))'
    <3>1. CASE b = o
      <4> SUFFICES ASSUME NEW q \in Callers, Sleeps(q, o)', NEW S \in SUBSET Callers,
                          ClosedFrom(p_head[o], S)'
                   PROVE  q \in S
        BY <3>1 DEF Sleepers, From
      <4>1. ClosedFrom(p_head[o], S)
        BY <2>1, <1>1, <1>7 DEF ClosedFrom, Lists
      <4>2. \A r \in Callers : Sleeps(r, o) => r \in S
        BY <4>1, <1>1 DEF ListInv, ReachInv, Sleepers, From, Unlocked
      <4>3. p \in S
        BY <4>2, <1>1, <1>7, ZenonT(60) DEF ClosedFrom, Lists, ListInv, HeadInv, Unlocked
      <4> QED BY <4>2, <4>3, <1>3
    <3>2. CASE b # o
      <4> SUFFICES ASSUME NEW q \in Callers, Sleeps(q, b)', NEW S \in SUBSET Callers,
                          ClosedFrom(p_head[b], S)'
                   PROVE  q \in S
        BY DEF Sleepers, From
      <4>1. Sleeps(q, b) /\ p_head'[b] = p_head[b] /\ b \notin freed /\ Unlocked(b)
        BY <3>2, <2>2, <1>1, <1>3, <1>7 DEF Lists, Unlocked
      <4>2. ClosedFrom(p_head[b], S)
        BY <4>1, <2>1 DEF ClosedFrom
      <4> QED BY <4>1, <4>2 DEF ListInv, ReachInv, Sleepers, From
    <3> QED BY <3>1, <3>2
  <2>3. ASSUME NEW w \in Callers, (pc[w] = "wake" /\ obj[w] \in Lists)'
        PROVE  (Sleepers(obj[w]) \subseteq From(p_unit[w]))'
    <3>1. w # p /\ pc[w] = "wake" /\ obj'[w] = obj[w] /\ obj[w] # o /\ obj[w] \in Lists
      BY <2>3, <1>1, <1>2, <1>7 DEF WorkInv
    <3> QED
      <4> SUFFICES ASSUME NEW q \in Callers, Sleeps(q, obj[w])', NEW S \in SUBSET Callers,
                          ClosedFrom(p_unit[w], S)'
                   PROVE  q \in S
        BY DEF Sleepers, From
      <4>1. Sleeps(q, obj[w])
        BY <3>1, <1>3 DEF Sleeps, Waits
      <4>2. ClosedFrom(p_unit[w], S)
        BY <1>1, <2>1 DEF ClosedFrom
      <4> QED BY <3>1, <4>1, <4>2 DEF ListInv, ReachInv, Sleepers, From
  <2>4. ASSUME NEW w \in Callers, (pc[w] = "last")'
        PROVE  (Sleepers(obj[w]) = {})'
    <3>1. w # p /\ pc[w] = "last" /\ obj'[w] = obj[w] /\ obj[w] # o
      BY <2>4, <1>1, <1>2, <1>7 DEF WorkInv
    <3> QED
      BY <3>1, <1>3 DEF ListInv, ReachInv, Sleepers
  <2> QED BY <2>2, <2>3, <2>4, <1>1 DEF ReachInv
<1>14. BarrierInv'
  <2>1. o \notin Barriers /\ calls \in [Callers -> 0..MaxCalls] /\ MaxCalls \in Nat
    BY <1>1 DEF Lists, TypeOK, ObjectsAssumption
  <2>2. \A q \in Callers, b \in Barriers : Sleeps(q, b)' <=> Sleeps(q, b)
    BY <2>1, <1>3
  <2>3. calls' \in [Callers -> 0..MaxCalls] /\ \A q \in Callers : calls'[q] >= calls[q]
    BY <2>1, <1>1
  <2> QED BY <2>2, <2>3, <1>1, BarriersKept
<1> QED BY <1>3, <1>4, <1>5, <1>6, <1>10, <1>11, <1>12, <1>13, <1>14 DEF ListInv

(* The part of EventualSet and FutureSet that resolves the object.         *)
LEMMA ResolveStep ==
  ASSUME ObjectsAssumption, IInv, NEW p \in Callers, NEW o \in Lists, Calls(p, o), Unlocked(o),
         Resolve(p, o), \A b \in Barriers : counter'[b] = counter[b],
         counter' \in [Objects -> Nat],
         UNCHANGED <<schedVars, signalled, listVars, waiters, freed, arrived>>
  PROVE  IInv'
<1> USE DEF IInv
<1>1. /\ o \in Objects /\ o \notin freed /\ lock[o] = None
      /\ pc[p] = "user" /\ Executes(p) /\ \A q \in Callers : ~ Frees(q, o)
      /\ calls[p] < MaxCalls /\ calls' = [calls EXCEPT ![p] = @ + 1]
      /\ obj' = [obj EXCEPT ![p] = o]
      /\ ready' = [ready EXCEPT ![o] = TRUE]
      /\ p_unit' = [p_unit EXCEPT ![p] = p_head[o]]
      /\ \/ p_head[o] = None /\ pc' = [pc EXCEPT ![p] = "user"] /\ lock' = lock
         \/ p_head[o] # None /\ pc' = [pc EXCEPT ![p] = "wake"] /\ lock' = [lock EXCEPT ![o] = p]
      /\ UNCHANGED <<cur, pool, blocking, signalled, p_next, p_head, p_tail, waiters, freed, arrived>>
  BY DEF Calls, Unlocked, Resolve, Goto, Lists, schedVars, listVars
<1>2. PICK l \in {"user", "wake"} : pc' = [pc EXCEPT ![p] = l]
  BY <1>1
<1>3. SchedInv' /\ \A q \in Callers : \A b : Sleeps(q, b)' <=> Sleeps(q, b)
  BY <1>1, <1>2, BusySleeps DEF Labels, schedVars
<1>4. TypeOK'
  BY <1>1, <1>2, SMTT(30) DEF TypeOK, SchedTypeOK, Labels
<1>5. WorkInv'
  <2> USE <1>1 DEF TypeOK
  <2>1. \A q \in Callers : /\ pc'[q] # "user" => obj'[q] \in Objects
                           /\ pc'[q] = "last" => obj'[q] \in Lists
    BY DEF WorkInv
  <2>2. \A q \in Callers : pc'[q] \in {"wake", "last"} => lock'[obj'[q]] = q
    BY DEF WorkInv, ObjectsAssumption
  <2>3. \A b \in Objects \ freed : lock'[b] # None =>
          pc'[lock'[b]] \in {"wake", "last"} /\ obj'[lock'[b]] = b
    <3> SUFFICES ASSUME NEW b \in Objects \ freed, lock'[b] # None
                 PROVE  pc'[lock'[b]] \in {"wake", "last"} /\ obj'[lock'[b]] = b
      OBVIOUS
    <3>1. CASE b = o
      BY <3>1
    <3>2. CASE b # o
      <4>1. lock'[b] = lock[b]
        BY <3>2
      <4>2. lock[b] # None => lock[b] \in Callers /\ pc[lock[b]] \in {"wake", "last"} /\ obj[lock[b]] = b
        BY DEF WorkInv, Unlocked
      <4>3. lock[b] # p
        BY <4>1, <4>2
      <4>4. pc'[lock[b]] = pc[lock[b]] /\ obj'[lock[b]] = obj[lock[b]]
        BY <4>1, <4>2, <4>3, <1>2
      <4> QED BY <4>1, <4>2, <4>4
    <3> QED BY <3>1, <3>2
  <2>4. \A q \in Callers, b \in Objects : Frees(q, b)' <=> Frees(q, b)
    BY SMTT(30) DEF Frees
  <2>5. \A q \in Callers, b \in Objects : Waits(q, b)' <=> Waits(q, b)
    BY SMTT(30) DEF Waits
  <2>6. freed' = freed
    OBVIOUS
  <2> HIDE <1>1 DEF TypeOK
  <2>7. /\ \A q, r \in Callers, b \in Objects : Frees(q, b)' /\ Frees(r, b)' => q = r
        /\ \A q, r \in Callers, b \in Objects : Frees(q, b)' => ~ Waits(r, b)'
    BY <2>4, <2>5 DEF WorkInv
  <2>8. (\A b \in Objects \ freed : ~ Unlocked(b) =>
           pc[lock[b]] \in {"wake", "last"} /\ obj[lock[b]] = b)'
    BY <2>3, <2>6 DEF Unlocked
  <2> QED BY <2>1, <2>2, <2>7, <2>8 DEF WorkInv
<1>6. NoUseAfterFree'
  BY <1>1, <1>2 DEF NoUseAfterFree, TypeOK
<1>7. ListInv'
  <2>1. ASSUME NEW q \in Callers, pc'[q] \in {"wake", "last"}, obj'[q] \in Lists
        PROVE  \/ pc'[q] = pc[q] /\ obj'[q] = obj[q] /\ p_unit'[q] = p_unit[q]
               \/ /\ pc'[q] = "wake" /\ Unlocked(obj'[q]) /\ obj'[q] \notin freed
                  /\ p_head[obj'[q]] # None /\ p_unit'[q] = p_head[obj'[q]]
    BY <2>1, <1>1 DEF TypeOK, Unlocked
  <2>2. \A q \in Callers : pc'[q] = "last" => obj'[q] \in Lists
    BY <1>1, <1>2 DEF TypeOK, WorkInv
  <2>3. \A b \in Lists : Unlocked(b)' => Unlocked(b) /\ (ready'[b] => ready[b] \/ p_head[b] = None)
    BY <1>1 DEF TypeOK, Unlocked, Lists, ObjectsAssumption
  <2> QED BY <2>1, <2>2, <2>3, <1>1, <1>3, ListsKept DEF listVars
<1>8. BarrierInv'
  <2>1. o \notin Barriers /\ \A b \in Barriers : b \in Objects
    BY DEF Lists, Barriers
  <2>2. \A b \in Barriers : counter'[b] = counter[b] /\ ready'[b] = ready[b] /\ lock'[b] = lock[b]
    BY <2>1, <1>1 DEF TypeOK
  <2>3. calls' \in [Callers -> 0..MaxCalls] /\ \A q \in Callers : calls'[q] >= calls[q]
    BY <1>1 DEF TypeOK, ObjectsAssumption
  <2> QED BY <2>2, <2>3, <1>1, <1>3, BarriersKept
<1> QED BY <1>3, <1>4, <1>5, <1>6, <1>7, <1>8

LEMMA EventualSetStep ==
  ASSUME ObjectsAssumption, IInv, NEW p \in Callers, NEW o \in Objects, EventualSet(p, o)
  PROVE  IInv'
<1>1. o \in Lists
  BY DEF EventualSet, Lists, Barriers
<1>2. counter' \in [Objects -> Nat] /\ \A b \in Barriers : counter'[b] = counter[b]
  BY DEF EventualSet, IInv, TypeOK
<1> QED BY <1>1, <1>2, ResolveStep DEF EventualSet

LEMMA FutureSetStep ==
  ASSUME ObjectsAssumption, IInv, NEW p \in Callers, NEW o \in Objects, FutureSet(p, o)
  PROVE  IInv'
<1>1. o \in Lists /\ o \notin Barriers /\ \A b \in Barriers : b \in Objects
  BY DEF FutureSet, Lists, Barriers
<1>2. counter' \in [Objects -> Nat] /\ \A b \in Barriers : counter'[b] = counter[b]
  BY <1>1 DEF FutureSet, IInv, TypeOK
<1>3. CASE counter[o] + 1 = Size[o]
  BY <1>1, <1>2, <1>3, ResolveStep DEF FutureSet
<1>4. CASE counter[o] + 1 # Size[o]
  <2> USE DEF IInv
  <2>1. /\ o \notin freed /\ pc[p] = "user" /\ \A q \in Callers : ~ Frees(q, o)
        /\ calls[p] < MaxCalls /\ calls' = [calls EXCEPT ![p] = @ + 1]
        /\ obj' = [obj EXCEPT ![p] = o] /\ pc' = [pc EXCEPT ![p] = "user"]
        /\ UNCHANGED <<schedVars, pc, p_unit, lock, ready, signalled, listVars, waiters, freed, arrived>>
    BY <1>4 DEF FutureSet, Calls, TypeOK
  <2>2. SchedInv' /\ \A q \in Callers : \A b : Sleeps(q, b)' <=> Sleeps(q, b)
    BY <2>1, BusySleeps DEF Labels
  <2>3. TypeOK'
    BY <2>1, <1>2 DEF TypeOK, SchedTypeOK, schedVars, listVars
  <2>4. WorkInv' /\ NoUseAfterFree'
    BY <2>1 DEF WorkInv, NoUseAfterFree, TypeOK, Frees, Waits, Unlocked
  <2>5. ListInv'
    BY <2>1, <2>2, ListsKept DEF TypeOK, Unlocked, WorkInv
  <2>6. calls' \in [Callers -> 0..MaxCalls] /\ \A q \in Callers : calls'[q] >= calls[q]
    BY <2>1 DEF TypeOK, ObjectsAssumption
  <2>7. BarrierInv'
    BY <2>1, <2>2, <2>6, <1>2, BarriersKept
  <2> QED BY <2>2, <2>3, <2>4, <2>5, <2>7
<1> QED BY <1>3, <1>4

LEMMA ResetStep ==
  ASSUME ObjectsAssumption, IInv, NEW p \in Callers, NEW o \in Objects, Reset(p, o)
  PROVE  IInv'
<1> USE DEF IInv
<1>1. /\ o \in Lists /\ o \notin Barriers /\ \A b \in Barriers : b \in Objects
      /\ o \notin freed /\ pc[p] = "user" /\ \A q \in Callers : ~ Frees(q, o)
      /\ calls[p] < MaxCalls /\ calls' = [calls EXCEPT ![p] = @ + 1]
      /\ obj' = [obj EXCEPT ![p] = o] /\ pc' = [pc EXCEPT ![p] = "user"]
      /\ ready' = [ready EXCEPT ![o] = FALSE]
      /\ UNCHANGED <<schedVars, pc, p_unit, lock, counter, signalled, listVars, waiters, freed, arrived>>
  BY DEF Reset, Calls, TypeOK, Lists, Barriers
<1>2. SchedInv' /\ \A q \in Callers : \A b : Sleeps(q, b)' <=> Sleeps(q, b)
  BY <1>1, BusySleeps DEF Labels
<1>3. TypeOK'
  BY <1>1 DEF TypeOK, SchedTypeOK, schedVars, listVars
<1>4. WorkInv' /\ NoUseAfterFree'
  BY <1>1 DEF WorkInv, NoUseAfterFree, TypeOK, Frees, Waits, Unlocked
<1>5. ListInv'
  BY <1>1, <1>2, ListsKept DEF TypeOK, Unlocked, WorkInv, Lists
<1>6. calls' \in [Callers -> 0..MaxCalls] /\ \A q \in Callers : calls'[q] >= calls[q]
  BY <1>1 DEF TypeOK, ObjectsAssumption
<1>7. BarrierInv'
  BY <1>1, <1>2, <1>6, BarriersKept DEF TypeOK
<1> QED BY <1>2, <1>3, <1>4, <1>5, <1>7

LEMMA FreeCallStep ==
  ASSUME ObjectsAssumption, IInv, NEW p \in Callers, NEW o \in Objects, FreeCall(p, o)
  PROVE  IInv'
<1> USE DEF IInv
<1>1. /\ o \notin freed /\ pc[p] = "user" /\ \A q \in Callers : ~ Frees(q, o) /\ ~ Waits(q, o)
      /\ calls[p] < MaxCalls /\ calls' = [calls EXCEPT ![p] = @ + 1]
      /\ obj' = [obj EXCEPT ![p] = o] /\ pc' = [pc EXCEPT ![p] = "free"]
      /\ UNCHANGED <<schedVars, p_unit, lock, ready, counter, signalled, listVars, waiters, freed, arrived>>
  BY DEF FreeCall, Calls, Goto
<1>2. SchedInv' /\ \A q \in Callers : \A b : Sleeps(q, b)' <=> Sleeps(q, b)
  BY <1>1, BusySleeps DEF Labels
<1>3. TypeOK'
  BY <1>1 DEF TypeOK, SchedTypeOK, schedVars, listVars, Labels
<1>4. WorkInv' /\ NoUseAfterFree'
  <2> USE <1>1 DEF TypeOK
  <2>1. \A q \in Callers : /\ pc'[q] # "user" => obj'[q] \in Objects
                           /\ pc'[q] = "last" => obj'[q] \in Lists
                           /\ pc'[q] \in {"wake", "last"} => lock'[obj'[q]] = q
    BY DEF WorkInv
  <2>2. \A b \in Objects \ freed : lock[b] # None =>
          pc'[lock[b]] \in {"wake", "last"} /\ obj'[lock[b]] = b
    BY DEF WorkInv, Unlocked
  <2>3. \A q \in Callers, b \in Objects : Frees(q, b)' <=> Frees(q, b) \/ (q = p /\ b = o)
    BY DEF Frees
  <2>4. \A q \in Callers, b \in Objects : Waits(q, b)' <=> Waits(q, b)
    BY DEF Waits
  <2>5. NoUseAfterFree'
    BY DEF NoUseAfterFree
  <2>6. freed' = freed /\ lock' = lock /\ \A q \in Callers : ~ Frees(q, o) /\ ~ Waits(q, o)
    OBVIOUS
  <2> HIDE <1>1 DEF TypeOK
  <2>7. /\ \A q, r \in Callers, b \in Objects : Frees(q, b)' /\ Frees(r, b)' => q = r
        /\ \A q, r \in Callers, b \in Objects : Frees(q, b)' => ~ Waits(r, b)'
    BY <2>3, <2>4, <2>6 DEF WorkInv
  <2>8. WorkInv'
    <3>1. (\A b \in Objects \ freed : ~ Unlocked(b) =>
            pc[lock[b]] \in {"wake", "last"} /\ obj[lock[b]] = b)'
      BY <2>2, <2>6 DEF Unlocked
    <3> QED BY <2>1, <2>7, <3>1 DEF WorkInv
  <2> QED BY <2>5, <2>8
<1>5. ListInv'
  BY <1>1, <1>2, ListsKept DEF TypeOK, Unlocked, WorkInv
<1>6. calls' \in [Callers -> 0..MaxCalls] /\ \A q \in Callers : calls'[q] >= calls[q]
  BY <1>1 DEF TypeOK, ObjectsAssumption
<1>7. BarrierInv'
  BY <1>1, <1>2, <1>6, BarriersKept
<1> QED BY <1>2, <1>3, <1>4, <1>5, <1>7

LEMMA FreeObjectStep ==
  ASSUME ObjectsAssumption, IInv, NEW p \in Callers, FreeObject(p)
  PROVE  IInv'
<1> USE DEF IInv
<1> DEFINE o == obj[p]
<1>1. /\ pc[p] = "free" /\ o \in Objects /\ lock[o] = None
      /\ pc' = [pc EXCEPT ![p] = "user"] /\ lock' = [lock EXCEPT ![o] = p]
      /\ freed' = freed \cup {o} /\ obj' = [obj EXCEPT ![p] = o]
      /\ UNCHANGED <<schedVars, obj, p_unit, calls, signalled, listVars, ready, counter, waiters, arrived>>
  BY DEF FreeObject, WorkInv, Unlocked, Goto, TypeOK
<1>2. SchedInv' /\ \A q \in Callers : \A b : Sleeps(q, b)' <=> Sleeps(q, b)
  BY <1>1, BusySleeps DEF Labels
<1>3. TypeOK'
  BY <1>1 DEF TypeOK, SchedTypeOK, schedVars, listVars, Labels
<1>4. WorkInv'
  BY <1>1 DEF WorkInv, TypeOK, Frees, Waits, Unlocked, ObjectsAssumption
<1>5. NoUseAfterFree'
  <2>1. ASSUME NEW q \in Callers, obj[q] = o, q # p
        PROVE  pc[q] = "user"
    <3>1. pc[q] \notin {"wake", "last"}
      BY <2>1, <1>1 DEF WorkInv, ObjectsAssumption
    <3>2. ~ Waits(q, o) /\ ~ Frees(q, o)
      BY <2>1, <1>1 DEF WorkInv, Frees
    <3> QED BY <3>1, <3>2, <2>1 DEF Waits, Frees, TypeOK, Labels
  <2> QED BY <2>1, <1>1 DEF NoUseAfterFree, TypeOK
<1>6. ListInv'
  <2>1. \A b \in Lists : Unlocked(b)' => Unlocked(b) /\ ready'[b] = ready[b]
    BY <1>1 DEF TypeOK, Unlocked, Lists, ObjectsAssumption
  <2>2. \A q \in Callers : pc'[q] \in {"wake", "last"} => pc'[q] = pc[q]
    BY <1>1 DEF TypeOK
  <2>3. \A q \in Callers : pc'[q] = "last" => obj'[q] \in Lists
    BY <1>1, <2>2 DEF WorkInv
  <2>4. freed \subseteq freed' /\ obj' = obj /\ p_unit' = p_unit /\ UNCHANGED listVars
    BY <1>1
  <2> QED BY <2>1, <2>2, <2>3, <2>4, <1>2, ListsKept
<1>7. BarrierInv'
  <2>1. \A b : Sleepers(b)' = Sleepers(b)
    BY <1>2 DEF Sleepers
  <2>2. Sleepers(o) = {}
    BY <1>1 DEF Sleepers, Sleeps, WorkInv, Frees
  <2>3. \A b \in Barriers : b \in Objects
    BY DEF Barriers
  <2>4. WaitersInv'
    BY <1>1, <2>1, <2>3 DEF BarrierInv, WaitersInv, Unlocked, TypeOK, ObjectsAssumption
  <2>5. RoundInv'
    <3> SUFFICES ASSUME NEW b \in Barriers
                 PROVE  \E r \in Nat : \A q \in Uses[b] :
                    arrived[b][q] = IF (Unlocked(b) /\ q \in Range(waiters[b]))' THEN r + 1 ELSE r
      BY <1>1 DEF RoundInv
    <3>1. PICK r \in Nat : \A q \in Uses[b] :
            arrived[b][q] = IF Unlocked(b) /\ q \in Range(waiters[b]) THEN r + 1 ELSE r
      BY DEF BarrierInv, RoundInv
    <3>2. b = o => Range(waiters[b]) = {}
      BY <2>2 DEF BarrierInv, WaitersInv
    <3>3. \A q \in Uses[b] : (Unlocked(b) /\ q \in Range(waiters[b]))'
                               <=> Unlocked(b) /\ q \in Range(waiters[b])
      BY <1>1, <2>3, <3>2 DEF Unlocked, TypeOK
    <3> QED BY <3>1, <3>3
  <2>6. CountInv'
    BY <1>1 DEF BarrierInv, CountInv
  <2> QED BY <2>4, <2>5, <2>6 DEF BarrierInv
<1> QED BY <1>2, <1>3, <1>4, <1>5, <1>6, <1>7

LEMMA WakeStep ==
  ASSUME ObjectsAssumption, IInv, NEW p \in Callers, Wake(p)
  PROVE  IInv'
<1> USE DEF IInv
<1> DEFINE o == obj[p]  u == p_unit[p]  v == p_next[u]
<1>1. /\ pc[p] = "wake" /\ o \in Lists /\ o \in Objects /\ lock[o] = p
      /\ p_unit' = [p_unit EXCEPT ![p] = v] /\ p_next' = [p_next EXCEPT ![u] = None]
      /\ Release(u)
      /\ pc' = [pc EXCEPT ![p] = IF v = None THEN "last" ELSE "wake"]
      /\ UNCHANGED <<obj, calls, p_head, p_tail, lock, ready, counter, waiters, freed, arrived>>
  BY DEF Wake, Goto, WorkInv, Lists, Barriers
<1>2. /\ p_next \in [Callers -> Callers \cup {None}] /\ None \notin Callers
      /\ p_unit \in [Callers -> Callers \cup {None}]
      /\ p_head \in [Objects -> Callers \cup {None}]
      /\ p_tail \in [Objects -> Callers \cup {None}]
      /\ obj \in [Callers -> Objects \cup {None}] /\ pc \in [Callers -> Labels]
  BY DEF TypeOK, ObjectsAssumption
<1>3. u \in Callers /\ Sleeps(u, o) /\ ~ Linked(u)
  BY <1>1, <1>2 DEF ListInv, WakeInv
<1>4. \A q, b : Sleeps(q, b) => obj[q] = b
  BY DEF Sleeps, Waits
<1>5. PICK l \in {"wake", "last"} : pc' = [pc EXCEPT ![p] = l] /\ (l = "last" <=> v = None)
  BY <1>1
<1>6. SchedInv' /\ \A q \in Callers : \A b : Sleeps(q, b)' <=> Sleeps(q, b) /\ q # u
  BY <1>1, <1>3, <1>5, ReleaseSleeps
<1>7. v # None => v \in Callers /\ Sleeps(v, o) /\ v # u
  BY <1>2, <1>3, <1>4 DEF ListInv, NextInv, Linked
<1>8. TypeOK'
  <2>1. SchedTypeOK' /\ signalled' \in SUBSET Externals
    BY <1>1, <1>3 DEF TypeOK, SchedTypeOK, Release, SetReady, Callers, schedVars
  <2>2. pc' \in [Callers -> Labels]
    BY <1>2, <1>5 DEF Labels
  <2>3. p_next' \in [Callers -> Callers \cup {None}] /\ p_unit' \in [Callers -> Callers \cup {None}]
    BY <1>1, <1>2, <1>3
  <2> QED BY <1>1, <2>1, <2>2, <2>3 DEF TypeOK
<1>9. WorkInv' /\ NoUseAfterFree'
  BY <1>1, <1>2, <1>5 DEF WorkInv, NoUseAfterFree, Frees, Waits, Unlocked
<1>10. HeadInv'
  <2> SUFFICES ASSUME NEW b \in Lists, Unlocked(b)'
               PROVE  (/\ p_head[b] = None <=> p_tail[b] = None
                       /\ p_head[b] # None => Sleeps(p_head[b], b) /\ ~ Linked(p_head[b])
                       /\ p_tail[b] # None => Sleeps(p_tail[b], b) /\ p_next[p_tail[b]] = None
                       /\ ready[b] => p_head[b] = None)'
    BY DEF HeadInv
  <2>1. b # o /\ Unlocked(b)
    BY <1>1, <1>2 DEF Unlocked
  <2>2. /\ p_head[b] = None <=> p_tail[b] = None
        /\ p_head[b] # None => Sleeps(p_head[b], b) /\ ~ Linked(p_head[b])
        /\ p_tail[b] # None => Sleeps(p_tail[b], b) /\ p_next[p_tail[b]] = None
        /\ ready[b] => p_head[b] = None
    BY <2>1 DEF ListInv, HeadInv
  <2>3. /\ p_head[b] \in Callers \cup {None} /\ p_tail[b] \in Callers \cup {None}
        /\ p_head[b] # u /\ p_tail[b] # u
    BY <1>2, <1>3, <1>4, <2>1, <2>2 DEF Lists
  <2>4. p_head[b] # None => ~ Linked(p_head[b])'
    BY <1>1, <1>2, <2>2, <2>3 DEF Linked
  <2> QED BY <2>2, <2>3, <2>4, <1>1, <1>2, <1>6
<1>11. WakeInv'
  <2> SUFFICES ASSUME NEW w \in Callers, (pc[w] = "wake" /\ obj[w] \in Lists)'
               PROVE  (p_unit[w] # None /\ Sleeps(p_unit[w], obj[w]) /\ ~ Linked(p_unit[w]))'
    BY DEF WakeInv
  <2>1. CASE w = p
    <3>1. v # None /\ p_unit'[p] = v
      BY <2>1, <1>1, <1>2, <1>5
    <3>2. \A r \in Callers : p_next'[r] # v
      BY <3>1, <1>1, <1>2, <1>3, <1>7 DEF Linked, ListInv, NextInv
    <3>3. ~ Linked(p_unit[p])'
      BY <3>1, <3>2 DEF Linked
    <3> QED BY <2>1, <3>1, <3>3, <1>1, <1>2, <1>6, <1>7
  <2>2. CASE w # p
    <3>1. pc[w] = "wake" /\ obj[w] \in Lists /\ obj[w] # o /\ p_unit'[w] = p_unit[w]
      BY <2>2, <1>1, <1>2, <1>5 DEF WorkInv
    <3>2. p_unit[w] \in Callers /\ Sleeps(p_unit[w], obj[w]) /\ ~ Linked(p_unit[w])
      BY <3>1, <1>2 DEF ListInv, WakeInv
    <3>3. p_unit[w] # u
      BY <3>1, <3>2, <1>3, <1>4
    <3>4. ~ Linked(p_unit[w])'
      BY <3>1, <3>2, <1>1, <1>2 DEF Linked
    <3> QED BY <3>1, <3>2, <3>3, <3>4, <1>1, <1>2, <1>6
  <2> QED BY <2>1, <2>2
<1>12. NextInv'
  BY <1>1, <1>2, <1>3, <1>6 DEF ListInv, NextInv, Linked
<1>13. ReachInv'
  <2>1. ASSUME NEW S \in SUBSET Callers, \A q \in S : p_next'[q] \in S \cup {None}
        PROVE  \A q \in S \ {u} : p_next[q] \in (S \ {u}) \cup {None}
    BY <2>1, <1>1, <1>2, <1>3 DEF Linked
  <2>2. ASSUME NEW b \in Lists \ freed, Unlocked(b)'
        PROVE  (Sleepers(b) \subseteq From(p_head[b]))'
    <3> SUFFICES ASSUME NEW q \in Callers, Sleeps(q, b)', NEW S \in SUBSET Callers,
                        ClosedFrom(p_head[b], S)'
                 PROVE  q \in S
      BY DEF Sleepers, From
    <3>1. Sleeps(q, b) /\ p_head'[b] = p_head[b] /\ Unlocked(b) /\ b # o
      BY <2>2, <1>1, <1>6 DEF Unlocked, WorkInv
    <3>2. p_head[b] # u
      BY <3>1, <1>2, <1>3, <1>4 DEF ListInv, HeadInv
    <3>3. ClosedFrom(p_head[b], S \ {u})
      BY <3>1, <3>2, <2>1 DEF ClosedFrom
    <3>4. S \ {u} \in SUBSET Callers
      OBVIOUS
    <3> QED BY <3>1, <3>3, <3>4 DEF ListInv, ReachInv, Sleepers, From
  <2>3. ASSUME NEW w \in Callers, (pc[w] = "wake" /\ obj[w] \in Lists)'
        PROVE  (Sleepers(obj[w]) \subseteq From(p_unit[w]))'
    <3> SUFFICES ASSUME NEW q \in Callers, Sleeps(q, obj[w])', NEW S \in SUBSET Callers,
                        ClosedFrom(p_unit[w], S)'
                 PROVE  q \in S
      BY DEF Sleepers, From
    <3>1. Sleeps(q, obj[w]) /\ q # u
      BY <1>1, <1>6 DEF Sleeps, Waits
    <3>2. CASE w = p
      <4>1. v # None /\ p_unit'[p] = v
        BY <2>3, <3>2, <1>1, <1>2, <1>5
      <4>2. v \in S
        BY <4>1, <3>2 DEF ClosedFrom
      <4>3. ClosedFrom(u, S \cup {u}) /\ S \cup {u} \in SUBSET Callers
        BY <4>2, <1>1, <1>2, <1>3 DEF ClosedFrom
      <4> QED BY <3>1, <3>2, <4>3, <1>1 DEF ListInv, ReachInv, Sleepers, From
    <3>3. CASE w # p
      <4>1. pc[w] = "wake" /\ obj[w] \in Lists /\ obj[w] # o /\ p_unit'[w] = p_unit[w]
        BY <2>3, <3>3, <1>1, <1>2, <1>5 DEF WorkInv
      <4>2. p_unit[w] # u
        BY <4>1, <1>2, <1>3, <1>4 DEF ListInv, WakeInv
      <4>3. ClosedFrom(p_unit[w], S \ {u}) /\ S \ {u} \in SUBSET Callers
        BY <4>1, <4>2, <2>1 DEF ClosedFrom
      <4> QED BY <3>1, <4>1, <4>3 DEF ListInv, ReachInv, Sleepers, From
    <3> QED BY <3>2, <3>3
  <2>4. ASSUME NEW w \in Callers, (pc[w] = "last")'
        PROVE  (Sleepers(obj[w]) = {})'
    <3>1. CASE w = p
      <4>1. v = None
        BY <2>4, <3>1, <1>2, <1>5
      <4>2. ClosedFrom(u, {u}) /\ {u} \in SUBSET Callers
        BY <4>1, <1>3 DEF ClosedFrom
      <4>3. From(u) \subseteq {u}
        BY <4>2 DEF From
      <4>4. Sleepers(o) \subseteq {u}
        BY <4>3, <1>1 DEF ListInv, ReachInv
      <4> QED BY <4>4, <3>1, <1>1, <1>6 DEF Sleepers
    <3>2. CASE w # p
      <4>1. pc[w] = "last" /\ obj'[w] = obj[w]
        BY <2>4, <3>2, <1>1, <1>2, <1>5
      <4> QED BY <4>1, <1>6 DEF ListInv, ReachInv, Sleepers
    <3> QED BY <3>1, <3>2
  <2> QED BY <2>2, <2>3, <2>4, <1>1 DEF ReachInv
<1>14. BarrierInv'
  <2>1. \A q \in Callers, b \in Barriers : Sleeps(q, b)' <=> Sleeps(q, b)
    BY <1>1, <1>3, <1>4, <1>6 DEF Lists
  <2>2. calls' \in [Callers -> 0..MaxCalls] /\ \A q \in Callers : calls'[q] >= calls[q]
    BY <1>1 DEF TypeOK, ObjectsAssumption
  <2> QED BY <2>1, <2>2, <1>1, BarriersKept
<1> QED BY <1>6, <1>8, <1>9, <1>10, <1>11, <1>12, <1>13, <1>14 DEF ListInv

LEMMA WakeLastStep ==
  ASSUME ObjectsAssumption, IInv, NEW p \in Callers, WakeLast(p)
  PROVE  IInv'
<1> USE DEF IInv
<1> DEFINE o == obj[p]
<1>1. /\ pc[p] = "last" /\ o \in Lists /\ o \in Objects /\ lock[o] = p
      /\ p_head' = [p_head EXCEPT ![o] = None] /\ p_tail' = [p_tail EXCEPT ![o] = None]
      /\ lock' = [lock EXCEPT ![o] = None] /\ pc' = [pc EXCEPT ![p] = "user"]
      /\ obj' = [obj EXCEPT ![p] = o]
      /\ UNCHANGED <<schedVars, obj, p_unit, calls, signalled, p_next, ready, counter, waiters,
                     freed, arrived>>
  BY DEF WakeLast, Goto, WorkInv, Lists, TypeOK
<1>2. /\ p_next \in [Callers -> Callers \cup {None}] /\ None \notin Callers
      /\ p_head \in [Objects -> Callers \cup {None}]
      /\ p_tail \in [Objects -> Callers \cup {None}]
      /\ obj \in [Callers -> Objects \cup {None}] /\ pc \in [Callers -> Labels]
      /\ lock \in [Objects -> Callers \cup {None}]
  BY DEF TypeOK, ObjectsAssumption
<1>3. SchedInv' /\ \A q \in Callers : \A b : Sleeps(q, b)' <=> Sleeps(q, b)
  BY <1>1, BusySleeps DEF Labels
<1>4. TypeOK'
  BY <1>1 DEF TypeOK, SchedTypeOK, schedVars, Labels
<1>5. WorkInv'
  BY <1>1, <1>2 DEF WorkInv, Frees, Waits, Unlocked
<1>6. NoUseAfterFree'
  BY <1>1, <1>2 DEF NoUseAfterFree
<1>7. HeadInv'
  <2> SUFFICES ASSUME NEW b \in Lists, Unlocked(b)'
               PROVE  (/\ p_head[b] = None <=> p_tail[b] = None
                       /\ p_head[b] # None => Sleeps(p_head[b], b) /\ ~ Linked(p_head[b])
                       /\ p_tail[b] # None => Sleeps(p_tail[b], b) /\ p_next[p_tail[b]] = None
                       /\ ready[b] => p_head[b] = None)'
    BY DEF HeadInv
  <2>1. CASE b = o
    BY <2>1, <1>1, <1>2
  <2>2. CASE b # o
    BY <2>2, <1>1, <1>2, <1>3 DEF ListInv, HeadInv, Unlocked, Linked, Lists
  <2> QED BY <2>1, <2>2
<1>8. WakeInv'
  BY <1>1, <1>2, <1>3 DEF ListInv, WakeInv, Linked, TypeOK
<1>9. NextInv'
  BY <1>1, <1>2, <1>3 DEF ListInv, NextInv
<1>10. ReachInv'
  <2>1. \A b : Sleepers(b)' = Sleepers(b)
    BY <1>3 DEF Sleepers
  <2>2. ASSUME NEW b \in Lists \ freed, Unlocked(b)'
        PROVE  (Sleepers(b) \subseteq From(p_head[b]))'
    <3>1. CASE b = o
      BY <3>1, <2>1, <1>1 DEF ListInv, ReachInv
    <3>2. CASE b # o
      <4>1. Unlocked(b) /\ p_head'[b] = p_head[b]
        BY <3>2, <2>2, <1>1, <1>2 DEF Unlocked, Lists
      <4>2. From(p_head[b])' = From(p_head[b])
        BY <4>1, <1>1 DEF From, ClosedFrom
      <4> QED BY <4>1, <4>2, <2>1 DEF ListInv, ReachInv
    <3> QED BY <3>1, <3>2
  <2>3. ASSUME NEW w \in Callers
        PROVE  (/\ pc[w] = "wake" /\ obj[w] \in Lists => Sleepers(obj[w]) \subseteq From(p_unit[w])
                /\ pc[w] = "last" => Sleepers(obj[w]) = {})'
    <3>1. From(p_unit[w])' = From(p_unit[w])
      BY <1>1 DEF From, ClosedFrom
    <3>2. Sleepers(obj[w])' = Sleepers(obj[w])
      BY <1>1, <1>3 DEF Sleepers
    <3>3. pc'[w] \in {"wake", "last"} => pc[w] = pc'[w]
      BY <1>1, <1>2
    <3> QED BY <3>1, <3>2, <3>3, <1>1 DEF ListInv, ReachInv
  <2> QED BY <2>2, <2>3, <1>1 DEF ReachInv
<1>11. BarrierInv'
  <2>1. calls' \in [Callers -> 0..MaxCalls] /\ \A q \in Callers : calls'[q] >= calls[q]
    BY <1>1 DEF TypeOK, ObjectsAssumption
  <2>2. \A b \in Barriers : lock'[b] = lock[b]
    BY <1>1, <1>2 DEF Barriers, Lists
  <2> QED BY <2>1, <2>2, <1>1, <1>3, BarriersKept
<1> QED BY <1>3, <1>4, <1>5, <1>6, <1>7, <1>8, <1>9, <1>10, <1>11 DEF ListInv
-----------------------------------------------------------------------------
(* The waiters of a barrier as a set.                                      *)
LEMMA RangeAppend ==
  ASSUME NEW S, NEW s \in Seq(S), NEW x \in S
  PROVE  Range(Append(s, x)) = Range(s) \cup {x}
<1>1. /\ DOMAIN Append(s, x) = 1..(Len(s) + 1) /\ DOMAIN s = 1..Len(s) /\ Len(s) \in Nat
      /\ \A i \in 1..Len(s) : Append(s, x)[i] = s[i]
      /\ Append(s, x)[Len(s) + 1] = x
  OBVIOUS
<1>2. \A y : y \in Range(Append(s, x)) => y \in Range(s) \cup {x}
  BY <1>1 DEF Range
<1>3. \A y : y \in Range(s) \cup {x} => y \in Range(Append(s, x))
  BY <1>1 DEF Range
<1> QED BY <1>2, <1>3

LEMMA RangeTail ==
  ASSUME NEW S, NEW s \in Seq(S), s # <<>>,
         \A i, j \in 1..Len(s) : s[i] = s[j] => i = j
  PROVE  /\ Head(s) \in Range(s)
         /\ Range(Tail(s)) = Range(s) \ {Head(s)}
<1>1. /\ DOMAIN Tail(s) = 1..(Len(s) - 1) /\ DOMAIN s = 1..Len(s) /\ Len(s) \in Nat \ {0}
      /\ \A i \in 1..(Len(s) - 1) : Tail(s)[i] = s[i + 1]
      /\ Head(s) = s[1]
  OBVIOUS
<1>2. \A y : y \in Range(Tail(s)) => y \in Range(s) \ {Head(s)}
  BY <1>1 DEF Range
<1>3. ASSUME NEW y \in Range(s), y # Head(s)
      PROVE  y \in Range(Tail(s))
  <2>1. PICK i \in 1..Len(s) : y = s[i]
    BY <1>1 DEF Range
  <2>2. i # 1 /\ i - 1 \in 1..(Len(s) - 1) /\ (i - 1) + 1 = i
    BY <2>1, <1>1, <1>3
  <2>3. i - 1 \in DOMAIN Tail(s) /\ Tail(s)[i - 1] = y
    BY <2>1, <2>2, <1>1
  <2> QED BY <2>3 DEF Range
<1>4. Head(s) \in Range(s)
  BY <1>1 DEF Range
<1>5. \A y : y \in Range(Tail(s)) <=> y \in Range(s) \ {Head(s)}
  BY <1>2, <1>3
<1> QED BY <1>4, <1>5

LEMMA BarrierWaitStep ==
  ASSUME ObjectsAssumption, IInv, NEW p \in Callers, NEW o \in Objects, BarrierWait(p, o)
  PROVE  IInv'
<1> USE DEF IInv
<1> DEFINE more == counter[o] + 1 < Size[o]
<1>1. /\ o \in Barriers /\ o \notin freed /\ lock[o] = None /\ p \in Uses[o]
      /\ pc[p] = "user" /\ Executes(p) /\ \A q \in Callers : ~ Frees(q, o)
      /\ calls[p] < MaxCalls /\ calls' = [calls EXCEPT ![p] = @ + 1]
      /\ obj' = [obj EXCEPT ![p] = o]
      /\ counter' = [counter EXCEPT ![o] = @ + 1]
      /\ arrived' = [arrived EXCEPT ![o][p] = @ + 1]
      /\ UNCHANGED <<p_next, p_head, p_tail, ready, freed, p_unit>>
  BY DEF BarrierWait, Arrive, Calls, Unlocked, listVars
<1>2. more => /\ waiters' = [waiters EXCEPT ![o] = Append(@, p)]
              /\ Block(p) /\ lock' = lock
  BY DEF BarrierWait, Arrive
<1>3. ~ more => /\ lock' = [lock EXCEPT ![o] = p] /\ pc' = [pc EXCEPT ![p] = "wake"]
                /\ UNCHANGED <<schedVars, signalled, waiters>>
  BY DEF BarrierWait, Arrive, Goto
<1> HIDE DEF more
<1>4. PICK l \in {"suspend", "waiting", "wake"} :
        pc' = [pc EXCEPT ![p] = l] /\ (more <=> l # "wake")
  BY <1>2, <1>3 DEF Block, Goto
<1>5. /\ SchedInv'
      /\ \A q \in Callers : \A b : Sleeps(q, b)' <=> Sleeps(q, b) \/ (more /\ q = p /\ b = o)
  <2>1. CASE more
    <3>1. /\ SchedInv'
          /\ \A q \in Callers : \A b : Sleeps(q, b)' <=> Sleeps(q, b) \/ (q = p /\ b = o)
      BY <2>1, <1>1, <1>2, BlockSleeps
    <3> QED BY <2>1, <3>1
  <2>2. CASE ~ more
    <3>1. /\ SchedInv'
          /\ \A q \in Callers : \A b : Sleeps(q, b)' <=> Sleeps(q, b)
      BY <2>2, <1>1, <1>3, BusySleeps DEF Labels
    <3> QED BY <2>2, <3>1
  <2> QED BY <2>1, <2>2
<1>6. /\ waiters \in [Objects -> Seq(Callers)] /\ counter \in [Objects -> Nat]
      /\ lock \in [Objects -> Callers \cup {None}] /\ None \notin Callers
      /\ obj \in [Callers -> Objects \cup {None}] /\ pc \in [Callers -> Labels]
      /\ calls \in [Callers -> 0..MaxCalls] /\ MaxCalls \in Nat
      /\ arrived \in [Objects -> [Callers -> 0..MaxCalls]]
      /\ \A b \in Barriers : /\ b \in Objects /\ b \notin Lists /\ Uses[b] \subseteq Callers
                             /\ IsFiniteSet(Uses[b]) /\ Cardinality(Uses[b]) = Size[b]
                             /\ Size[b] \in Nat
  BY DEF TypeOK, ObjectsAssumption, Barriers, Lists
<1>7. arrived[o][p] <= calls[p] /\ calls[p] + 1 \in 0..MaxCalls
  BY <1>1, <1>6 DEF BarrierInv, CountInv
<1>8. TypeOK'
  <2>1. SchedTypeOK' /\ signalled' \in SUBSET Externals
    BY <1>1, <1>2, <1>3 DEF TypeOK, SchedTypeOK, Block, SetBlocked, schedVars
  <2>2. /\ pc' \in [Callers -> Labels] /\ obj' \in [Callers -> Objects \cup {None}]
        /\ calls' \in [Callers -> 0..MaxCalls] /\ counter' \in [Objects -> Nat]
    BY <1>1, <1>4, <1>6, <1>7 DEF Labels
  <2>3. arrived' \in [Objects -> [Callers -> 0..MaxCalls]]
    <3>1. arrived[o][p] + 1 \in 0..MaxCalls /\ arrived[o] \in [Callers -> 0..MaxCalls]
      BY <1>6, <1>7
    <3>2. arrived' = [arrived EXCEPT ![o] = [arrived[o] EXCEPT ![p] = arrived[o][p] + 1]]
      BY <1>1, <1>6
    <3> QED BY <3>1, <3>2, <1>6
  <2>4. waiters' \in [Objects -> Seq(Callers)] /\ lock' \in [Objects -> Callers \cup {None}]
    <3>1. CASE more
      <4>1. waiters[o] \in Seq(Callers) /\ o \in Objects
        BY <1>1, <1>6
      <4>2. Append(waiters[o], p) \in Seq(Callers)
        BY <4>1
      <4>3. waiters' = [waiters EXCEPT ![o] = Append(waiters[o], p)]
        BY <3>1, <4>1, <1>2, <1>6
      <4> QED BY <3>1, <4>1, <4>2, <4>3, <1>2, <1>6
    <3>2. CASE ~ more
      <4>1. waiters' = waiters /\ lock' = [lock EXCEPT ![o] = p] /\ o \in Objects
        BY <3>2, <1>1, <1>3, <1>6
      <4>2. lock' \in [Objects -> Callers \cup {None}]
        BY <4>1, <1>6
      <4> QED BY <4>1, <4>2, <1>6
    <3> QED BY <3>1, <3>2
  <2> QED BY <1>1, <2>1, <2>2, <2>3, <2>4 DEF TypeOK
<1>9. WorkInv'
  <2>1. \A q \in Callers : /\ pc'[q] # "user" => obj'[q] \in Objects
                           /\ pc'[q] = "last" => obj'[q] \in Lists
    BY <1>1, <1>4, <1>6 DEF WorkInv
  <2>2. \A q \in Callers : pc'[q] \in {"wake", "last"} => lock'[obj'[q]] = q
    <3> SUFFICES ASSUME NEW q \in Callers, pc'[q] \in {"wake", "last"}
                 PROVE  lock'[obj'[q]] = q
      OBVIOUS
    <3>1. CASE q = p
      BY <3>1, <1>1, <1>3, <1>4, <1>6
    <3>2. CASE q # p
      <4>1. pc[q] \in {"wake", "last"} /\ obj'[q] = obj[q]
        BY <3>2, <1>1, <1>4, <1>6
      <4>2. obj[q] \in Objects /\ lock[obj[q]] = q /\ obj[q] # o
        BY <4>1, <1>1, <1>6 DEF WorkInv
      <4> QED BY <4>1, <4>2, <1>2, <1>3, <1>6
    <3> QED BY <3>1, <3>2
  <2>3. (\A b \in Objects \ freed : ~ Unlocked(b) =>
           pc[lock[b]] \in {"wake", "last"} /\ obj[lock[b]] = b)'
    <3> SUFFICES ASSUME NEW b \in Objects \ freed, lock'[b] # None
                 PROVE  pc'[lock'[b]] \in {"wake", "last"} /\ obj'[lock'[b]] = b
      BY <1>1 DEF Unlocked
    <3>1. CASE b = o
      BY <3>1, <1>1, <1>2, <1>3, <1>4, <1>6
    <3>2. CASE b # o
      <4>1. lock'[b] = lock[b]
        BY <3>2, <1>2, <1>3, <1>6
      <4>2. lock[b] \in Callers /\ pc[lock[b]] \in {"wake", "last"} /\ obj[lock[b]] = b
        BY <4>1, <1>6 DEF WorkInv, Unlocked
      <4> QED BY <4>1, <4>2, <1>1, <1>4, <1>6
    <3> QED BY <3>1, <3>2
  <2>4. \A q \in Callers, b \in Objects : Frees(q, b)' => Frees(q, b) /\ b # o
    BY <1>1, <1>4, <1>6 DEF Frees
  <2>5. \A q \in Callers, b \in Objects : Waits(q, b)' => Waits(q, b) \/ b = o
    BY <1>1, <1>4, <1>6 DEF Waits
  <2>6. /\ \A q, r \in Callers, b \in Objects : Frees(q, b)' /\ Frees(r, b)' => q = r
        /\ \A q, r \in Callers, b \in Objects : Frees(q, b)' => ~ Waits(r, b)'
    BY <2>4, <2>5 DEF WorkInv
  <2> QED BY <2>1, <2>2, <2>3, <2>6 DEF WorkInv
<1>10. NoUseAfterFree'
  BY <1>1, <1>4, <1>6 DEF NoUseAfterFree
<1>11. ListInv'
  <2>1. \A q \in Callers, b \in Lists : Sleeps(q, b)' <=> Sleeps(q, b)
    BY <1>1, <1>5, <1>6
  <2>2. \A q \in Callers : pc'[q] \in {"wake", "last"} /\ obj'[q] \in Lists =>
          pc'[q] = pc[q] /\ obj'[q] = obj[q] /\ p_unit'[q] = p_unit[q]
    BY <1>1, <1>4, <1>6
  <2>3. \A q \in Callers : pc'[q] = "last" => obj'[q] \in Lists
    BY <1>1, <1>4, <1>6 DEF WorkInv
  <2>4. \A b \in Lists : Unlocked(b)' => Unlocked(b) /\ ready'[b] = ready[b]
    BY <1>1, <1>2, <1>3, <1>6 DEF Unlocked, Lists
  <2> QED BY <2>1, <2>2, <2>3, <2>4, <1>1, ListsKept DEF listVars
<1>12. p \notin Range(waiters[o]) /\ Range(waiters[o]) \subseteq Uses[o]
  <2>1. ~ Sleeps(p, o)
    BY <1>1 DEF Sleeps, Waits
  <2>2. \A i \in 1..Len(waiters[o]) : waiters[o][i] \in Uses[o]
    BY <1>1 DEF BarrierInv, WaitersInv
  <2>3. DOMAIN waiters[o] = 1..Len(waiters[o])
    BY <1>1, <1>6
  <2>4. Range(waiters[o]) = Sleepers(o)
    BY <1>1 DEF BarrierInv, WaitersInv
  <2>5. Range(waiters[o]) \subseteq Uses[o]
    BY <2>2, <2>3 DEF Range
  <2> QED BY <2>1, <2>4, <2>5 DEF Sleepers
<1>13. more => Range(waiters'[o]) = Range(waiters[o]) \cup {p}
  <2>1. more => waiters'[o] = Append(waiters[o], p)
    BY <1>1, <1>2, <1>6
  <2>2. waiters[o] \in Seq(Callers)
    BY <1>1, <1>6
  <2>3. Range(Append(waiters[o], p)) = Range(waiters[o]) \cup {p}
    BY <2>2, RangeAppend
  <2> QED BY <2>1, <2>3
<1>14. \A b \in Barriers : b # o =>
         /\ waiters'[b] = waiters[b] /\ counter'[b] = counter[b] /\ arrived'[b] = arrived[b]
         /\ (Unlocked(b)' <=> Unlocked(b)) /\ Sleepers(b)' = Sleepers(b)
  <2>1. ASSUME NEW b \in Barriers, b # o
        PROVE  Sleepers(b)' = Sleepers(b)
    BY <2>1, <1>5 DEF Sleepers
  <2> QED BY <2>1, <1>1, <1>2, <1>3, <1>6 DEF Unlocked
<1>15. IsFiniteSet(Range(waiters[o])) /\ Cardinality(Range(waiters[o])) = counter[o]
  BY <1>1, <1>6, <1>12, FS_Subset DEF BarrierInv, WaitersInv, Unlocked
<1>16. WaitersInv'
  <2> SUFFICES ASSUME NEW b \in Barriers
               PROVE  (/\ ~ ready[b]
                       /\ \A i, j \in 1..Len(waiters[b]) : waiters[b][i] = waiters[b][j] => i = j
                       /\ \A i \in 1..Len(waiters[b]) : waiters[b][i] \in Uses[b]
                       /\ Range(waiters[b]) = Sleepers(b)
                       /\ Unlocked(b) => Cardinality(Range(waiters[b])) = counter[b])'
    BY DEF WaitersInv
  <2>0. /\ ~ ready[b]
        /\ \A i, j \in 1..Len(waiters[b]) : waiters[b][i] = waiters[b][j] => i = j
        /\ \A i \in 1..Len(waiters[b]) : waiters[b][i] \in Uses[b]
        /\ Range(waiters[b]) = Sleepers(b)
        /\ Unlocked(b) => Cardinality(Range(waiters[b])) = counter[b]
    BY DEF BarrierInv, WaitersInv
  <2>1. CASE b # o
    BY <2>0, <2>1, <1>1, <1>14
  <2>2. CASE b = o /\ ~ more
    <3>1. Sleepers(o)' = Sleepers(o)
      BY <2>2, <1>5 DEF Sleepers
    <3>2. waiters' = waiters /\ ~ Unlocked(o)'
      BY <2>2, <1>3, <1>6 DEF Unlocked
    <3> QED BY <2>0, <2>2, <3>1, <3>2, <1>1
  <2>3. CASE b = o /\ more
    <3>1. Sleepers(o)' = Sleepers(o) \cup {p}
      BY <2>3, <1>5 DEF Sleepers
    <3>2. waiters[o] \in Seq(Callers) /\ waiters'[o] = Append(waiters[o], p)
      BY <2>3, <1>2, <1>6
    <3>3. /\ Len(waiters'[o]) = Len(waiters[o]) + 1 /\ Len(waiters[o]) \in Nat
          /\ \A i \in 1..Len(waiters[o]) : waiters'[o][i] = waiters[o][i] /\ waiters[o][i] # p
          /\ waiters'[o][Len(waiters[o]) + 1] = p
      BY <3>2, <1>12 DEF Range
    <3>4. /\ \A i, j \in 1..Len(waiters'[o]) : waiters'[o][i] = waiters'[o][j] => i = j
          /\ \A i \in 1..Len(waiters'[o]) : waiters'[o][i] \in Uses[o]
      <4>1. \A i \in 1..Len(waiters'[o]) :
              i \in 1..Len(waiters[o]) \/ i = Len(waiters[o]) + 1
        BY <3>3
      <4>2. /\ \A i, j \in 1..Len(waiters[o]) : waiters[o][i] = waiters[o][j] => i = j
            /\ \A i \in 1..Len(waiters[o]) : waiters[o][i] \in Uses[o]
        BY <2>0, <2>3
      <4>3. ASSUME NEW i \in 1..Len(waiters'[o]), NEW j \in 1..Len(waiters'[o]),
                   waiters'[o][i] = waiters'[o][j]
            PROVE  i = j
        BY <4>1, <4>2, <4>3, <3>3
      <4>4. ASSUME NEW i \in 1..Len(waiters'[o])
            PROVE  waiters'[o][i] \in Uses[o]
        BY <4>1, <4>2, <3>3, <1>1
      <4> QED BY <4>3, <4>4
    <3>5. Cardinality(Range(waiters'[o])) = counter'[o]
      <4>1. counter'[o] = counter[o] + 1
        BY <1>1, <1>6
      <4>2. Cardinality(Range(waiters[o]) \cup {p}) = Cardinality(Range(waiters[o])) + 1
        BY <1>12, <1>15, FS_AddElement
      <4> QED BY <2>3, <4>1, <4>2, <1>13, <1>15
    <3> QED BY <2>0, <2>3, <3>1, <3>4, <3>5, <1>1, <1>13
  <2> QED BY <2>1, <2>2, <2>3
<1>17. RoundInv'
  <2> SUFFICES ASSUME NEW b \in Barriers
               PROVE  \E r \in Nat : \A q \in Uses[b] :
                  arrived'[b][q] = IF (Unlocked(b) /\ q \in Range(waiters[b]))' THEN r + 1 ELSE r
    BY DEF RoundInv
  <2>1. PICK r \in Nat : \A q \in Uses[b] :
          arrived[b][q] = IF Unlocked(b) /\ q \in Range(waiters[b]) THEN r + 1 ELSE r
    BY DEF BarrierInv, RoundInv
  <2>2. CASE b # o
    BY <2>1, <2>2, <1>14
  <2>3. CASE b = o /\ more
    <3>1. Unlocked(o) /\ Unlocked(o)'
      BY <2>3, <1>1, <1>2 DEF Unlocked
    <3>2. \A q \in Uses[o] : arrived'[o][q] = IF q = p THEN arrived[o][q] + 1 ELSE arrived[o][q]
      BY <1>1, <1>6
    <3> QED BY <2>1, <2>3, <3>1, <3>2, <1>12, <1>13
  <2>4. CASE b = o /\ ~ more
    <3>1. Unlocked(o) /\ ~ Unlocked(o)'
      BY <2>4, <1>1, <1>3, <1>6 DEF Unlocked
    <3>2. \A q \in Uses[o] : arrived'[o][q] = IF q = p THEN arrived[o][q] + 1 ELSE arrived[o][q]
      BY <1>1, <1>6
    <3>3. /\ IsFiniteSet(Range(waiters[o]) \cup {p})
          /\ Cardinality(Range(waiters[o]) \cup {p}) = counter[o] + 1
      BY <1>12, <1>15, FS_AddElement
    <3>4. Range(waiters[o]) \cup {p} \subseteq Uses[o]
      BY <1>1, <1>12
    <3>5. counter[o] + 1 = Cardinality(Uses[o])
      <4>1. Cardinality(Range(waiters[o]) \cup {p}) <= Cardinality(Uses[o])
        BY <1>1, <1>6, <3>4, FS_Subset
      <4> QED BY <4>1, <3>3, <2>4, <1>1, <1>6 DEF more
    <3>6. Range(waiters[o]) \cup {p} = Uses[o]
      BY <1>1, <1>6, <3>3, <3>4, <3>5, FS_Subset
    <3>7. \A q \in Uses[o] : arrived'[o][q] = r + 1
      BY <2>1, <2>4, <3>1, <3>2, <3>6, <1>12
    <3>8. r + 1 \in Nat /\ \A q \in Uses[b] :
            arrived'[b][q] = IF (Unlocked(b) /\ q \in Range(waiters[b]))' THEN (r + 1) + 1 ELSE r + 1
      BY <2>4, <3>1, <3>7
    <3> QED BY <3>8
  <2> QED BY <2>2, <2>3, <2>4
<1>18. CountInv'
  <2>1. \A b \in Objects, q \in Callers :
          arrived'[b][q] = IF b = o /\ q = p THEN arrived[b][q] + 1 ELSE arrived[b][q]
    BY <1>1, <1>6
  <2> QED BY <2>1, <1>1, <1>6, SMTT(30) DEF BarrierInv, CountInv
<1> QED BY <1>5, <1>8, <1>9, <1>10, <1>11, <1>16, <1>17, <1>18 DEF BarrierInv

LEMMA BarrierWakeStep ==
  ASSUME ObjectsAssumption, IInv, NEW p \in Callers, BarrierWake(p)
  PROVE  IInv'
<1> USE DEF IInv
<1> DEFINE o == obj[p]  u == Head(waiters[o])
<1>1. /\ pc[p] = "wake" /\ o \in Barriers /\ o \in Objects /\ lock[o] = p /\ waiters[o] # <<>>
      /\ Release(u) /\ waiters' = [waiters EXCEPT ![o] = Tail(@)]
      /\ pc' = [pc EXCEPT ![p] = "wake"]
      /\ UNCHANGED <<pc, obj, p_unit, calls, listVars, lock, ready, counter, freed, arrived>>
  BY DEF BarrierWake, WorkInv, Barriers, callVars, TypeOK
<1>2. /\ waiters[o] \in Seq(Callers) /\ waiters \in [Objects -> Seq(Callers)]
      /\ lock \in [Objects -> Callers \cup {None}] /\ None \notin Callers
      /\ \A b \in Barriers : b \in Objects /\ b \notin Lists
  BY <1>1 DEF TypeOK, ObjectsAssumption, Barriers, Lists
<1>3. /\ \A i, j \in 1..Len(waiters[o]) : waiters[o][i] = waiters[o][j] => i = j
      /\ \A i \in 1..Len(waiters[o]) : waiters[o][i] \in Uses[o]
      /\ Range(waiters[o]) = Sleepers(o)
  BY <1>1 DEF BarrierInv, WaitersInv
<1>4. u \in Range(waiters[o]) /\ Range(Tail(waiters[o])) = Range(waiters[o]) \ {u}
  BY <1>1, <1>2, <1>3, RangeTail
<1>5. u \in Callers /\ Sleeps(u, o)
  BY <1>3, <1>4 DEF Sleepers
<1>6. SchedInv' /\ \A q \in Callers : \A b : Sleeps(q, b)' <=> Sleeps(q, b) /\ q # u
  BY <1>1, <1>5, ReleaseSleeps
<1>7. \A b : Sleeps(u, b) => b = o
  BY <1>5 DEF Sleeps, Waits
<1>8. waiters'[o] = Tail(waiters[o]) /\ waiters' \in [Objects -> Seq(Callers)]
  <2>1. Tail(waiters[o]) \in Seq(Callers)
    BY <1>1, <1>2
  <2> QED BY <2>1, <1>1, <1>2
<1>9. TypeOK'
  <2>1. SchedTypeOK' /\ signalled' \in SUBSET Externals
    BY <1>1, <1>5 DEF TypeOK, SchedTypeOK, Release, SetReady, Callers, schedVars
  <2> QED BY <2>1, <1>1, <1>8 DEF TypeOK, listVars
<1>10. WorkInv' /\ NoUseAfterFree'
  BY <1>1 DEF WorkInv, NoUseAfterFree, Frees, Waits, Unlocked
<1>11. ListInv'
  <2>0. o \notin Lists
    BY <1>1, <1>2
  <2>1. ASSUME NEW q \in Callers, NEW b \in Lists
        PROVE  Sleeps(q, b)' <=> Sleeps(q, b)
    <3>1. b # o
      BY <2>0
    <3>2. ~ Sleeps(u, b)
      BY <3>1, <1>7
    <3>3. Sleeps(q, b) => q # u
      BY <3>2
    <3>4. Sleeps(q, b)' <=> Sleeps(q, b) /\ q # u
      BY <1>6
    <3> QED BY <3>3, <3>4
  <2>2. \A b \in Lists : Unlocked(b)' => Unlocked(b) /\ ready'[b] = ready[b]
    BY <1>1 DEF Unlocked
  <2>3. \A q \in Callers : pc'[q] = "last" => obj'[q] \in Lists
    BY <1>1 DEF WorkInv
  <2> QED BY <2>1, <2>2, <2>3, <1>1, ListsKept
<1>12. WaitersInv'
  <2> SUFFICES ASSUME NEW b \in Barriers
               PROVE  (/\ ~ ready[b]
                       /\ \A i, j \in 1..Len(waiters[b]) : waiters[b][i] = waiters[b][j] => i = j
                       /\ \A i \in 1..Len(waiters[b]) : waiters[b][i] \in Uses[b]
                       /\ Range(waiters[b]) = Sleepers(b)
                       /\ Unlocked(b) => Cardinality(Range(waiters[b])) = counter[b])'
    BY DEF WaitersInv
  <2>0. /\ ~ ready[b]
        /\ \A i, j \in 1..Len(waiters[b]) : waiters[b][i] = waiters[b][j] => i = j
        /\ \A i \in 1..Len(waiters[b]) : waiters[b][i] \in Uses[b]
        /\ Range(waiters[b]) = Sleepers(b)
        /\ Unlocked(b) => Cardinality(Range(waiters[b])) = counter[b]
    BY DEF BarrierInv, WaitersInv
  <2>1. CASE b # o
    <3>1. Sleepers(b)' = Sleepers(b)
      BY <2>1, <1>6, <1>7 DEF Sleepers
    <3>2. waiters'[b] = waiters[b]
      BY <2>1, <1>1, <1>2
    <3> QED BY <2>0, <3>1, <3>2, <1>1 DEF Unlocked
  <2>2. CASE b = o
    <3>1. Sleepers(o)' = Sleepers(o) \ {u}
      BY <1>1, <1>6 DEF Sleepers
    <3>2. /\ Len(waiters'[o]) = Len(waiters[o]) - 1 /\ Len(waiters[o]) \in Nat \ {0}
          /\ \A i \in 1..(Len(waiters[o]) - 1) : waiters'[o][i] = waiters[o][i + 1]
      BY <1>1, <1>2, <1>8
    <3>3. /\ \A i, j \in 1..Len(waiters'[o]) : waiters'[o][i] = waiters'[o][j] => i = j
          /\ \A i \in 1..Len(waiters'[o]) : waiters'[o][i] \in Uses[o]
      <4> DEFINE n == Len(waiters[o])  w == waiters'[o]
      <4>1. n \in Nat /\ Len(w) = n - 1 /\ \A i \in 1..(n - 1) : w[i] = waiters[o][i + 1]
        BY <3>2
      <4>2. /\ \A i, j \in 1..n : waiters[o][i] = waiters[o][j] => i = j
            /\ \A i \in 1..n : waiters[o][i] \in Uses[o]
        BY <1>3
      <4> HIDE DEF n, w
      <4>3. ASSUME NEW i \in 1..(n - 1), NEW j \in 1..(n - 1), w[i] = w[j]
            PROVE  i = j
        <5>1. i + 1 \in 1..n /\ j + 1 \in 1..n
          BY <4>1
        <5>2. waiters[o][i + 1] = waiters[o][j + 1]
          BY <4>1, <4>3
        <5>3. i + 1 = j + 1
          BY <5>1, <5>2, <4>2
        <5> QED BY <5>3
      <4>4. ASSUME NEW i \in 1..(n - 1)
            PROVE  w[i] \in Uses[o]
        <5>1. i + 1 \in 1..n
          BY <4>1
        <5> QED BY <5>1, <4>1, <4>2
      <4> QED BY <4>1, <4>3, <4>4 DEF w
    <3>4. ~ Unlocked(o)'
      BY <1>1, <1>2 DEF Unlocked
    <3>5. Range(waiters'[o]) = Sleepers(o) \ {u}
      BY <1>3, <1>4, <1>8
    <3>6. obj'[p] = obj[p]
      BY <1>1
    <3>7. ~ Unlocked(b)' /\ Sleepers(b)' = Range(waiters'[b])
      BY <2>2, <3>1, <3>4, <3>5, <3>6 DEF Unlocked, Sleepers
    <3> QED BY <2>0, <2>2, <3>3, <3>7, <1>1
  <2> QED BY <2>1, <2>2
<1>13. RoundInv'
  <2> SUFFICES ASSUME NEW b \in Barriers
               PROVE  \E r \in Nat : \A q \in Uses[b] :
                  arrived'[b][q] = IF (Unlocked(b) /\ q \in Range(waiters[b]))' THEN r + 1 ELSE r
    BY DEF RoundInv
  <2>1. PICK r \in Nat : \A q \in Uses[b] :
          arrived[b][q] = IF Unlocked(b) /\ q \in Range(waiters[b]) THEN r + 1 ELSE r
    BY DEF BarrierInv, RoundInv
  <2>2. \A q : (Unlocked(b) /\ q \in Range(waiters[b]))' <=> Unlocked(b) /\ q \in Range(waiters[b])
    <3>1. CASE b = o
      BY <3>1, <1>1, <1>2 DEF Unlocked
    <3>2. CASE b # o
      BY <3>2, <1>1, <1>2 DEF Unlocked
    <3> QED BY <3>1, <3>2
  <2> QED BY <2>1, <2>2, <1>1
<1>14. CountInv'
  BY <1>1 DEF BarrierInv, CountInv
<1> QED BY <1>6, <1>9, <1>10, <1>11, <1>12, <1>13, <1>14 DEF BarrierInv

LEMMA BarrierLastStep ==
  ASSUME ObjectsAssumption, IInv, NEW p \in Callers, BarrierLast(p)
  PROVE  IInv'
<1> USE DEF IInv
<1> DEFINE o == obj[p]
<1>1. /\ pc[p] = "wake" /\ o \in Barriers /\ o \in Objects /\ lock[o] = p /\ waiters[o] = <<>>
      /\ counter' = [counter EXCEPT ![o] = 0] /\ lock' = [lock EXCEPT ![o] = None]
      /\ pc' = [pc EXCEPT ![p] = "user"] /\ obj' = [obj EXCEPT ![p] = o]
      /\ UNCHANGED <<schedVars, obj, p_unit, calls, signalled, listVars, ready, waiters, freed,
                     arrived>>
  BY DEF BarrierLast, WorkInv, Barriers, Goto, TypeOK
<1>2. /\ lock \in [Objects -> Callers \cup {None}] /\ None \notin Callers
      /\ counter \in [Objects -> Nat]
      /\ obj \in [Callers -> Objects \cup {None}] /\ pc \in [Callers -> Labels]
      /\ \A b \in Barriers : b \in Objects /\ b \notin Lists
  BY <1>1 DEF TypeOK, ObjectsAssumption, Barriers, Lists
<1>3. SchedInv' /\ \A q \in Callers : \A b : Sleeps(q, b)' <=> Sleeps(q, b)
  BY <1>1, BusySleeps DEF Labels
<1>4. TypeOK'
  BY <1>1 DEF TypeOK, SchedTypeOK, schedVars, listVars, Labels
<1>5. WorkInv'
  BY <1>1, <1>2 DEF WorkInv, Frees, Waits, Unlocked
<1>6. NoUseAfterFree'
  BY <1>1, <1>2 DEF NoUseAfterFree
<1>7. ListInv'
  <2>1. \A b \in Lists : Unlocked(b)' => Unlocked(b) /\ ready'[b] = ready[b]
    BY <1>1, <1>2 DEF Unlocked
  <2>2. \A q \in Callers : pc'[q] \in {"wake", "last"} =>
          pc'[q] = pc[q] /\ obj'[q] = obj[q] /\ p_unit'[q] = p_unit[q]
    BY <1>1, <1>2
  <2>3. \A q \in Callers : pc'[q] = "last" => obj'[q] \in Lists
    BY <1>1, <2>2 DEF WorkInv
  <2> QED BY <2>1, <2>2, <2>3, <1>1, <1>3, ListsKept
<1>8. \A b : Sleepers(b)' = Sleepers(b)
  BY <1>3 DEF Sleepers
<1>9. Range(waiters[o]) = {}
  BY <1>1 DEF Range
<1>10. WaitersInv'
  <2> SUFFICES ASSUME NEW b \in Barriers
               PROVE  (Unlocked(b) => Cardinality(Range(waiters[b])) = counter[b])'
    BY <1>1, <1>8 DEF BarrierInv, WaitersInv
  <2>1. CASE b = o
    BY <2>1, <1>1, <1>2, <1>9, FS_EmptySet
  <2>2. CASE b # o
    BY <2>2, <1>1, <1>2 DEF BarrierInv, WaitersInv, Unlocked
  <2> QED BY <2>1, <2>2
<1>11. RoundInv'
  <2> SUFFICES ASSUME NEW b \in Barriers
               PROVE  \E r \in Nat : \A q \in Uses[b] :
                  arrived'[b][q] = IF (Unlocked(b) /\ q \in Range(waiters[b]))' THEN r + 1 ELSE r
    BY DEF RoundInv
  <2>1. PICK r \in Nat : \A q \in Uses[b] :
          arrived[b][q] = IF Unlocked(b) /\ q \in Range(waiters[b]) THEN r + 1 ELSE r
    BY DEF BarrierInv, RoundInv
  <2>2. \A q : (Unlocked(b) /\ q \in Range(waiters[b]))' <=> Unlocked(b) /\ q \in Range(waiters[b])
    <3>1. CASE b = o
      BY <3>1, <1>1, <1>2, <1>9 DEF Unlocked
    <3>2. CASE b # o
      BY <3>2, <1>1, <1>2 DEF Unlocked
    <3> QED BY <3>1, <3>2
  <2> QED BY <2>1, <2>2, <1>1
<1>12. CountInv'
  BY <1>1 DEF BarrierInv, CountInv
<1> QED BY <1>3, <1>4, <1>5, <1>6, <1>7, <1>10, <1>11, <1>12 DEF BarrierInv

(* Steps of the scheduler, and of a waiter that leaves its ES or comes     *)
(* back.                                                                   *)
LEMMA IdleStep ==
  ASSUME ObjectsAssumption, IInv, TypeOK', SchedInv',
         UNCHANGED <<obj, p_unit, calls, listVars, lock, ready, counter, waiters, freed, arrived>>,
         \A q \in Callers : \A b : Sleeps(q, b)' <=> Sleeps(q, b),
         \A q \in Callers : \A b : Waits(q, b)' => Waits(q, b),
         \A q \in Callers : pc'[q] \in {pc[q], "user", "waiting"},
         \A q \in Callers : pc'[q] = "waiting" => pc[q] \in {"suspend", "waiting"},
         \A q \in Callers : pc[q] \in {"wake", "last"} => pc'[q] = pc[q]
  PROVE  IInv'
<1> USE DEF IInv
<1>1. WorkInv'
  <2>1. \A q \in Callers, o \in Objects : Frees(q, o)' => Frees(q, o)
    BY DEF Frees
  <2>2. /\ \A q \in Callers : pc'[q] # "user" => pc[q] # "user"
        /\ \A q \in Callers : pc'[q] \in {"wake", "last"} => pc'[q] = pc[q]
    OBVIOUS
  <2>3. \A o \in Objects \ freed : ~ Unlocked(o) =>
          lock[o] \in Callers /\ pc'[lock[o]] = pc[lock[o]]
    BY DEF WorkInv, TypeOK, Unlocked
  <2>4. /\ \A q \in Callers : pc'[q] # "user" => obj'[q] \in Objects
        /\ \A q \in Callers : pc'[q] \in {"wake", "last"} => lock'[obj'[q]] = q
        /\ \A q \in Callers : pc'[q] = "last" => obj'[q] \in Lists
    BY <2>2 DEF WorkInv
  <2>5. \A o \in Objects \ freed' : ~ Unlocked(o)' =>
          pc'[lock'[o]] \in {"wake", "last"} /\ obj'[lock'[o]] = o
    BY <2>3 DEF WorkInv, Unlocked
  <2>6. /\ \A q, r \in Callers, o \in Objects : Frees(q, o)' /\ Frees(r, o)' => q = r
        /\ \A q, r \in Callers, o \in Objects : Frees(q, o)' => ~ Waits(r, o)'
    BY <2>1 DEF WorkInv
  <2> QED BY <2>4, <2>5, <2>6 DEF WorkInv
<1>2. NoUseAfterFree'
  BY DEF NoUseAfterFree, TypeOK
<1>3. ListInv'
  <2>1. \A q \in Callers : pc'[q] \in {"wake", "last"} => pc'[q] = pc[q]
    OBVIOUS
  <2>2. \A q \in Callers : pc'[q] = "last" => obj'[q] \in Lists
    BY <2>1 DEF WorkInv
  <2>3. \A b : Unlocked(b)' => Unlocked(b)
    BY DEF Unlocked
  <2> QED BY <2>1, <2>2, <2>3, ListsKept
<1>4. BarrierInv'
  <2>1. calls' \in [Callers -> 0..MaxCalls] /\ \A q \in Callers : calls'[q] >= calls[q]
    BY DEF TypeOK, ObjectsAssumption
  <2> QED BY <2>1, BarriersKept
<1> QED BY <1>1, <1>2, <1>3, <1>4

LEMMA SuspendStep ==
  ASSUME ObjectsAssumption, IInv, NEW p \in Callers, Suspend(p)
  PROVE  IInv'
<1> USE DEF IInv
<1>1. SchedInv' /\ \A q \in Callers : \A b : /\ Waits(q, b)' <=> Waits(q, b)
                                             /\ Sleeps(q, b)' <=> Sleeps(q, b)
  BY SuspendSleeps
<1>2. /\ p \in Ults /\ pc[p] = "suspend" /\ pc' = [pc EXCEPT ![p] = "waiting"]
      /\ cur' = [e \in Xstreams |-> IF cur[e] = p THEN None ELSE cur[e]]
      /\ blocking' = blocking \ {p} /\ UNCHANGED pool
      /\ UNCHANGED <<obj, p_unit, calls, signalled, listVars, lock, ready, counter, waiters, freed,
                     arrived>>
  BY DEF Suspend, SuspendUlt, BackToSched, Goto
<1>3. TypeOK'
  BY <1>2 DEF TypeOK, SchedTypeOK, listVars, Labels
<1>4. \A q \in Callers : /\ pc'[q] \in {pc[q], "waiting"} /\ (pc'[q] # pc[q] => pc[q] = "suspend")
                         /\ (pc'[q] = "waiting" => pc[q] \in {"suspend", "waiting"})
  BY <1>2 DEF TypeOK
<1> QED BY <1>1, <1>2, <1>3, <1>4, IdleStep

LEMMA WaitReturnStep ==
  ASSUME ObjectsAssumption, IInv, NEW p \in Callers, WaitReturn(p)
  PROVE  IInv'
<1> USE DEF IInv
<1>1. SchedInv' /\ \A q \in Callers : \A b : /\ Waits(q, b)' => Waits(q, b)
                                             /\ Sleeps(q, b)' <=> Sleeps(q, b)
  BY ReturnSleeps
<1>2. /\ pc[p] = "waiting" /\ pc' = [pc EXCEPT ![p] = "user"]
      /\ UNCHANGED <<schedVars, obj, p_unit, calls, signalled, listVars, lock, ready, counter, waiters,
                     freed, arrived>>
  BY DEF WaitReturn, Goto
<1>3. TypeOK'
  BY <1>2 DEF TypeOK, SchedTypeOK, listVars, schedVars, Labels
<1>4. \A q \in Callers : /\ pc'[q] \in {pc[q], "user"} /\ (pc'[q] # pc[q] => pc[q] = "waiting")
                         /\ (pc'[q] = "waiting" => pc[q] = "waiting")
  BY <1>2 DEF TypeOK
<1> QED BY <1>1, <1>2, <1>3, <1>4, IdleStep

LEMMA SchedStep ==
  ASSUME ObjectsAssumption, IInv, NEW t \in Ults, Yield(t) \/ \E e \in Xstreams : Run(e, t)
  PROVE  IInv'
<1> USE DEF IInv
<1>1. SchedInv' /\ \A q \in Callers : \A b : Sleeps(q, b)' <=> Sleeps(q, b)
  BY SchedSleeps
<1>2. UNCHANGED <<pc, obj, p_unit, calls, signalled, listVars, lock, ready, counter, waiters, freed,
                  arrived>>
  BY DEF Yield, Run, callVars
<1>3. SchedTypeOK'
  BY DEF Yield, Run, YieldUlt, BackToSched, Dispatch, TypeOK, SchedTypeOK
<1>4. TypeOK'
  BY <1>2, <1>3 DEF TypeOK, listVars
<1>5. \A q \in Callers : \A b : Waits(q, b)' <=> Waits(q, b)
  BY <1>2 DEF Waits
<1> QED BY <1>1, <1>2, <1>4, <1>5, IdleStep
-----------------------------------------------------------------------------
(* The theorems.                                                           *)
LEMMA InitInv == ASSUME ObjectsAssumption, Init PROVE IInv
<1> USE DEF Init, SchedInit
<1>1. TypeOK
  BY DEF TypeOK, SchedTypeOK, ObjectsAssumption, Labels
<1>2. SchedInv /\ WorkInv /\ NoUseAfterFree
  BY DEF SchedInv, WorkInv, NoUseAfterFree, ObjectsAssumption, Frees, Unlocked, Callers
<1>3. \A q \in Callers : \A b : ~ Sleeps(q, b)
  BY DEF Sleeps, Waits
<1>4. ListInv
  BY <1>3 DEF ListInv, HeadInv, WakeInv, NextInv, ReachInv, Lists, Sleepers
<1>5. \A o \in Barriers : o \in Objects /\ Range(waiters[o]) = {} /\ waiters[o] = <<>>
  BY DEF Barriers, Range
<1>6. WaitersInv
  <2>1. \A o : Sleepers(o) = {}
    BY <1>3 DEF Sleepers
  <2>2. Cardinality({}) = 0
    BY FS_EmptySet
  <2>3. \A o \in Barriers : ~ ready[o] /\ counter[o] = 0 /\ Len(waiters[o]) = 0
    BY <1>5
  <2> HIDE DEF Init, SchedInit
  <2>4. \A o \in Barriers : Cardinality(Range(waiters[o])) = counter[o] /\ Range(waiters[o]) = Sleepers(o)
    BY <1>5, <2>1, <2>2, <2>3
  <2> QED BY <2>3, <2>4 DEF WaitersInv
<1>7. RoundInv /\ CountInv
  <2>1. \A o \in Objects, p \in Callers : arrived[o][p] = 0 /\ calls[p] = 0
    OBVIOUS
  <2>2. \A o \in Barriers : Uses[o] \subseteq Callers
    BY <1>5 DEF ObjectsAssumption
  <2>3. ASSUME NEW o \in Barriers
        PROVE  \A p \in Uses[o] :
                 arrived[o][p] = IF Unlocked(o) /\ p \in Range(waiters[o]) THEN 0 + 1 ELSE 0
    BY <1>5, <2>1, <2>2
  <2> HIDE DEF Init, SchedInit
  <2>4. RoundInv
    BY <2>3 DEF RoundInv
  <2>5. CountInv
    BY <2>1 DEF CountInv
  <2> QED BY <2>4, <2>5
<1> QED BY <1>1, <1>2, <1>4, <1>6, <1>7 DEF IInv, BarrierInv

LEMMA NextInvariant ==
  ASSUME ObjectsAssumption, IInv, [Next]_vars
  PROVE  IInv'
<1>1. ASSUME NEW p \in Callers, CallStep(p)
      PROVE  IInv'
  BY <1>1, WaitStep, EventualSetStep, FutureSetStep, ResetStep, BarrierWaitStep, FreeCallStep
    DEF CallStep
<1>2. ASSUME NEW p \in Callers, RuntimeStep(p)
      PROVE  IInv'
  BY <1>2, WakeStep, WakeLastStep, BarrierWakeStep, BarrierLastStep, SuspendStep, WaitReturnStep,
     FreeObjectStep DEF RuntimeStep
<1>3. ASSUME NEW t \in Ults, Yield(t) \/ \E e \in Xstreams : Run(e, t)
      PROVE  IInv'
  BY <1>3, SchedStep
<1>4. CASE UNCHANGED vars
  <2>1. UNCHANGED <<cur, pool, blocking, pc, obj, p_unit, calls, signalled, listVars, lock, ready,
                    counter, waiters, freed, arrived>>
    BY <1>4 DEF vars, schedVars, callVars
  <2>2. TypeOK' /\ SchedInv'
    BY <2>1 DEF IInv, TypeOK, SchedTypeOK, SchedInv, Executes, listVars
  <2>3. \A q \in Callers : \A b : (Waits(q, b)' <=> Waits(q, b)) /\ (Sleeps(q, b)' <=> Sleeps(q, b))
    BY <2>1 DEF Waits, Sleeps, Released, Executes
  <2> QED BY <2>1, <2>2, <2>3, IdleStep
<1> QED BY <1>1, <1>2, <1>3, <1>4 DEF Next

(* The inductive invariant of the eventuals, futures and barriers.         *)
THEOREM InductiveInvariant == Spec => []IInv
<1>1. Init => IInv
  BY ObjectsAssumption, InitInv
<1>2. IInv /\ [Next]_vars => IInv'
  BY ObjectsAssumption, NextInvariant
<1> QED BY <1>1, <1>2, PTL DEF Spec

-----------------------------------------------------------------------------
(* The invariant says what the runs check.                                 *)

(* Links lead from sleepers of an object to sleepers of that object.       *)
LEMMA SleepersClosed ==
  ASSUME ObjectsAssumption, IInv, NEW o \in Lists, NEW u \in Sleepers(o) \cup {None}
  PROVE  From(u) \subseteq Sleepers(o)
<1>1. Sleepers(o) \in SUBSET Callers
  BY DEF Sleepers
<1>2. ASSUME NEW q \in Sleepers(o), p_next[q] # None
      PROVE  p_next[q] \in Sleepers(o)
  <2>1. q \in Callers /\ Sleeps(q, o) /\ obj[q] = o
    BY DEF Sleepers, Sleeps, Waits
  <2>2. Sleeps(p_next[q], o) /\ p_next[q] \in Callers
    BY <1>2, <2>1 DEF IInv, ListInv, NextInv, TypeOK
  <2> QED BY <2>2 DEF Sleepers
<1>3. ClosedFrom(u, Sleepers(o))
  BY <1>2 DEF ClosedFrom
<1> QED BY <1>1, <1>3 DEF From

(* On the list of an object that nobody is at work on are its sleepers.    *)
LEMMA UnlockedListed ==
  ASSUME ObjectsAssumption, IInv, NEW o \in Lists \ freed, Unlocked(o)
  PROVE  Listed(o) = Sleepers(o)
<1> USE DEF IInv, ListInv
<1>1. Listed(o) = From(p_head[o])
  BY DEF Listed, Lists
<1>2. Sleepers(o) \subseteq From(p_head[o])
  BY DEF ReachInv
<1>3. p_head[o] \in Sleepers(o) \cup {None}
  BY DEF HeadInv, Sleepers, TypeOK, Lists
<1>4. From(p_head[o]) \subseteq Sleepers(o)
  BY <1>3, SleepersClosed
<1>5. From(p_head[o]) = Sleepers(o)
  BY <1>2, <1>4, Zenon
<1> HIDE DEF IInv, ListInv
<1> QED BY <1>1, <1>5

(* While an object is locked those are left that its waker has not come to.*)
LEMMA LockedListed ==
  ASSUME ObjectsAssumption, IInv, NEW o \in Lists \ freed, ~ Unlocked(o)
  PROVE  Listed(o) = Sleepers(o)
<1> USE DEF IInv, ListInv
<1> DEFINE W == {q \in Callers : pc[q] = "wake" /\ obj[q] = o}
           p == lock[o]
<1>1. Listed(o) = UNION {From(p_unit[q]) : q \in W}
  BY DEF Listed, Lists
<1>2. p \in Callers /\ pc[p] \in {"wake", "last"} /\ obj[p] = o
  BY DEF WorkInv, Unlocked, Lists, TypeOK
<1>3. W \subseteq {p}
  BY DEF WorkInv
<1>4. CASE pc[p] = "wake"
  <2>1. W = {p}
    BY <1>2, <1>3, <1>4
  <2>2. Listed(o) = From(p_unit[p])
    BY <1>1, <2>1
  <2>3. Sleepers(o) \subseteq From(p_unit[p])
    BY <1>2, <1>4 DEF ReachInv
  <2>4. p_unit[p] \in Sleepers(o) \cup {None}
    BY <1>2, <1>4 DEF WakeInv, Sleepers, TypeOK
  <2>5. From(p_unit[p]) \subseteq Sleepers(o)
    BY <2>4, SleepersClosed
  <2>6. From(p_unit[p]) = Sleepers(o)
    BY <2>3, <2>5, Zenon
  <2> HIDE DEF IInv, ListInv
  <2> QED BY <2>2, <2>6
<1>5. CASE pc[p] = "last"
  <2>1. W = {}
    BY <1>3, <1>5
  <2>2. Sleepers(o) = {}
    BY <1>2, <1>5 DEF ReachInv
  <2> QED BY <1>1, <2>1, <2>2
<1> QED BY <1>2, <1>4, <1>5

LEMMA InvNobodyForgotten == ASSUME ObjectsAssumption, IInv PROVE NobodyForgotten
<1> USE DEF IInv
<1> SUFFICES ASSUME NEW o \in Objects \ freed
             PROVE  /\ Listed(o) = {p \in Callers : Waits(p, o) /\ ~ Released(p)}
                    /\ Unlocked(o) /\ ready[o] => Listed(o) = {}
  BY DEF NobodyForgotten
<1>1. Sleepers(o) = {p \in Callers : Waits(p, o) /\ ~ Released(p)}
  BY DEF Sleepers, Sleeps
<1>2. CASE o \in Barriers
  <2>1. Listed(o) = Range(waiters[o]) /\ Range(waiters[o]) = Sleepers(o) /\ ~ ready[o]
    BY <1>2 DEF Listed, BarrierInv, WaitersInv
  <2> QED BY <1>1, <2>1
<1>3. CASE o \notin Barriers
  <2>1. o \in Lists \ freed
    BY <1>3 DEF Lists
  <2>2. Listed(o) = Sleepers(o)
    BY <2>1, UnlockedListed, LockedListed
  <2>3. ASSUME Unlocked(o), ready[o]
        PROVE  Listed(o) = {}
    <3>1. p_head[o] = None
      BY <2>1, <2>3 DEF ListInv, HeadInv
    <3>2. From(None) = {}
      BY DEF From, ClosedFrom
    <3>3. Sleepers(o) \subseteq From(p_head[o])
      BY <2>1, <2>3 DEF ListInv, ReachInv
    <3> QED BY <2>2, <3>1, <3>2, <3>3
  <2> QED BY <1>1, <2>2, <2>3
<1> QED BY <1>2, <1>3

LEMMA InvBarrierHolds == ASSUME ObjectsAssumption, IInv PROVE BarrierHolds
<1> USE DEF IInv
<1> SUFFICES ASSUME NEW o \in Barriers, NEW p \in Uses[o], NEW q \in Uses[o]
             PROVE  Passed(p, o) <= arrived[o][q]
  BY DEF BarrierHolds
<1>1. o \in Objects /\ p \in Callers /\ q \in Callers
  BY DEF Barriers, ObjectsAssumption
<1>2. PICK r \in Nat : \A u \in Uses[o] :
        arrived[o][u] = IF Unlocked(o) /\ u \in Range(waiters[o]) THEN r + 1 ELSE r
  BY DEF BarrierInv, RoundInv
<1>3. p \in Range(waiters[o]) => Waits(p, o)
  BY DEF BarrierInv, WaitersInv, Sleepers, Sleeps
<1>4. arrived[o][q] \in {r, r + 1} /\ arrived[o][p] \in {r, r + 1}
      /\ (arrived[o][p] = r + 1 => Waits(p, o))
  BY <1>2, <1>3
<1> HIDE DEF IInv
<1> QED BY <1>4 DEF Passed

(* Every variable keeps its type: the lists of the eventuals, futures and  *)
(* barriers hold callers, counters are naturals.  A future's may exceed    *)
(* its compartments (futures.c:260); a barrier's is bounded below.         *)
THEOREM TypeCorrect == Spec => []TypeOK
<1>1. IInv => TypeOK
  BY DEF IInv
<1> QED BY <1>1, InductiveInvariant, PTL

(* No wakeup is lost and none goes astray (eventual.c, futures.c,          *)
(* barrier.c): for any number of callers, ESs and objects.                 *)
THEOREM NobodyIsForgotten == Spec => []NobodyForgotten
<1>1. IInv => NobodyForgotten
  BY ObjectsAssumption, InvNobodyForgotten
<1> QED BY <1>1, InductiveInvariant, PTL

(* Nobody passes ABT_barrier_wait before all its waiters have reached it   *)
(* as often (barrier.c:151), for a barrier of any size.                    *)
THEOREM BarriersHold == Spec => []BarrierHolds
<1>1. IInv => BarrierHolds
  BY ObjectsAssumption, InvBarrierHolds
<1> QED BY <1>1, InductiveInvariant, PTL

(* ABTI_ASSERT(p_barrier->counter < p_barrier->num_waiters) (barrier.c:162)*)
RoomToArrive ==
  \A o \in Barriers : \A p \in Uses[o] :
    pc[p] = "user" /\ Unlocked(o) => counter[o] < Size[o]

(* A user that comes to a barrier whose lock is free finds room, however   *)
(* often the barrier has been used: the assertion of ABT_barrier_wait.     *)
THEOREM BarriersHaveRoom == Spec => []RoomToArrive
<1>1. ASSUME IInv, NEW o \in Barriers, NEW p \in Uses[o], pc[p] = "user", Unlocked(o)
      PROVE  counter[o] < Size[o]
  <2>1. o \in Objects /\ IsFiniteSet(Uses[o]) /\ Cardinality(Uses[o]) = Size[o]
    BY ObjectsAssumption DEF Barriers, ObjectsAssumption
  <2>2. Cardinality(Range(waiters[o])) = counter[o] /\ Range(waiters[o]) = Sleepers(o)
    BY <1>1 DEF IInv, BarrierInv, WaitersInv
  <2>3. waiters[o] \in Seq(Callers) /\ \A i \in 1..Len(waiters[o]) : waiters[o][i] \in Uses[o]
    BY <1>1, <2>1 DEF IInv, BarrierInv, WaitersInv, TypeOK
  <2>4. Range(waiters[o]) \subseteq Uses[o]
    BY <2>3 DEF Range
  <2>5. p \notin Range(waiters[o])
    BY <1>1, <2>2 DEF Sleepers, Sleeps, Waits
  <2>6. Cardinality(Range(waiters[o])) <= Size[o] /\ Cardinality(Range(waiters[o])) # Size[o]
    BY <2>1, <2>4, <2>5, FS_Subset
  <2>7. counter[o] \in Nat /\ Size[o] \in Nat
    BY <1>1, <2>1, ObjectsAssumption DEF IInv, TypeOK, ObjectsAssumption
  <2> QED
    BY <2>2, <2>6, <2>7
<1>2. IInv => RoomToArrive
  BY <1>1 DEF RoomToArrive
<1> QED BY <1>2, InductiveInvariant, PTL

(* Nobody is at work on an object that one of the free routines has freed. *)
THEOREM FreedIsUnused == Spec => []NoUseAfterFree
<1>1. IInv => NoUseAfterFree
  BY DEF IInv
<1> QED BY <1>1, InductiveInvariant, PTL
=============================================================================
