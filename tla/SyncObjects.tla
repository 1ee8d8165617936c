---------------------------- MODULE SyncObjects ----------------------------
(***************************************************************************)
(* Eventuals, futures and barriers, used by ULTs and by external threads.  *)
(* Sources: eventual.c, futures.c, barrier.c.                              *)
(*                                                                         *)
(* A critical section of an object is one step, except where its effects   *)
(* are seen before its lock is released: the loop that wakes the waiters.  *)
(* A call that finds the object ready returns at once and changes nothing. *)
(* As built (--disable-checks) a future takes more values than it has      *)
(* compartments; the values themselves are left out.                       *)
(***************************************************************************)
EXTENDS Blocking, Naturals, FiniteSets, Sequences, SequencesExt

CONSTANTS
  Objects,
  Kind,        \* Kind[o]: "eventual", "future" or "barrier"
  Size,        \* Size[o]: the compartments of a future, the waiters of a barrier
  Uses,        \* Uses[o]: the callers of object o; of a barrier, its waiters
  MaxCalls     \* bound: the calls of a caller

ASSUME ObjectsAssumption ==
  /\ None \notin Callers \cup Objects /\ Ults \cap Externals = {}
  /\ Kind \in [Objects -> {"eventual", "future", "barrier"}]
  /\ Size \in [Objects -> Nat \ {0}] /\ Uses \in [Objects -> SUBSET Callers]
  /\ \A o \in Objects : Kind[o] = "barrier" =>
       IsFiniteSet(Uses[o]) /\ Cardinality(Uses[o]) = Size[o]
  /\ MaxCalls \in Nat

VARIABLES
  pc, obj,          \* where a caller is, and the object it has called last
  p_unit,           \* the waiter that a waker is about to wake
  signalled,        \* the external threads whose ext_signal is 1
  p_next,           \* the field of the unit of a caller
  lock,             \* the holder of the lock of an object
  ready, counter,   \* fields of an object
  p_head, p_tail,   \* of an eventual or a future
  waiters,          \* of a barrier: those not woken yet
  freed,            \* the objects that have been freed
  calls,            \* how many calls a caller has made
  arrived           \* arrived[o][p]: how many of them wait at barrier o

callVars == <<pc, obj, p_unit, calls>>
listVars == <<p_next, p_head, p_tail>>
vars == <<schedVars, callVars, signalled, listVars, lock, ready, counter, waiters, freed, arrived>>

Labels == {"user", "suspend", "waiting", "wake", "last", "free"}

Barriers == {o \in Objects : Kind[o] = "barrier"}
Lists    == Objects \ Barriers

TypeOK ==
  /\ SchedTypeOK
  /\ pc \in [Callers -> Labels] /\ obj \in [Callers -> Objects \cup {None}]
  /\ p_unit \in [Callers -> Callers \cup {None}]
  /\ signalled \in SUBSET Externals
  /\ p_next \in [Callers -> Callers \cup {None}]
  /\ lock \in [Objects -> Callers \cup {None}]
  /\ ready \in [Objects -> BOOLEAN] /\ counter \in [Objects -> Nat]
  /\ p_head \in [Objects -> Callers \cup {None}] /\ p_tail \in [Objects -> Callers \cup {None}]
  /\ waiters \in [Objects -> Seq(Callers)]
  /\ freed \in SUBSET Objects
  /\ calls \in [Callers -> 0..MaxCalls] /\ arrived \in [Objects -> [Callers -> 0..MaxCalls]]

-----------------------------------------------------------------------------
Goto(p, l) == pc' = [pc EXCEPT ![p] = l]

Frees(p, o) == pc[p] = "free" /\ obj[p] = o

(* Caller p starts a call on o, whose memory must not have been freed.     *)
Calls(p, o) ==
  /\ pc[p] = "user" /\ Executes(p) /\ p \in Uses[o]
  /\ o \notin freed /\ \A q \in Callers : ~ Frees(q, o)
  /\ calls[p] < MaxCalls
  /\ calls' = [calls EXCEPT ![p] = @ + 1]
  /\ obj' = [obj EXCEPT ![p] = o]

Unlocked(o) == lock[o] = None

(* A caller that has to wait blocks; an external thread polls ext_signal.  *)
Block(p) ==
  IF p \in Ults THEN SetBlocked(p) /\ Goto(p, "suspend") /\ UNCHANGED <<cur, pool, signalled>>
  ELSE Goto(p, "waiting") /\ signalled' = signalled \ {p} /\ UNCHANGED schedVars

(* The waker makes waiter p ready, or stores its ext_signal.               *)
Release(p) ==
  IF p \in Ults THEN SetReady(p) /\ UNCHANGED <<cur, blocking, signalled>>
  ELSE signalled' = signalled \cup {p} /\ UNCHANGED schedVars

-----------------------------------------------------------------------------
(* ABT_eventual_wait and ABT_future_wait, of an object that is not ready.  *)
Wait(p, o) ==
  /\ o \in Lists /\ Calls(p, o) /\ Unlocked(o) /\ ~ ready[o]
  /\ p_next' = [q \in Callers |-> IF q = p THEN None
                                  ELSE IF q = p_tail[o] THEN p ELSE p_next[q]]
  /\ p_head' = [p_head EXCEPT ![o] = IF @ = None THEN p ELSE @]
  /\ p_tail' = [p_tail EXCEPT ![o] = p]
  /\ Block(p)
  /\ UNCHANGED <<p_unit, lock, ready, counter, waiters, freed, arrived>>

(* Mutant: an early release of the lock, before the list is cleared.       *)
ResolveUnlocked(p, o) ==
  /\ ready' = [ready EXCEPT ![o] = TRUE]
  /\ p_unit' = [p_unit EXCEPT ![p] = p_head[o]]
  /\ Goto(p, IF p_head[o] = None THEN "user" ELSE "wake")
  /\ UNCHANGED lock

(* The object becomes ready: the caller wakes the waiters, if any, with    *)
(* the lock held.                                                          *)
Resolve(p, o) ==
  /\ ready' = [ready EXCEPT ![o] = TRUE]
  /\ p_unit' = [p_unit EXCEPT ![p] = p_head[o]]
  /\ IF p_head[o] = None THEN Goto(p, "user") /\ UNCHANGED lock
     ELSE Goto(p, "wake") /\ lock' = [lock EXCEPT ![o] = p]

(* ABT_eventual_set                                                        *)
EventualSet(p, o) ==
  /\ Kind[o] = "eventual" /\ Calls(p, o) /\ Unlocked(o)
  /\ Resolve(p, o)
  /\ UNCHANGED <<schedVars, signalled, listVars, counter, waiters, freed, arrived>>

(* ABT_future_set                                                          *)
FutureSet(p, o) ==
  /\ Kind[o] = "future" /\ Calls(p, o) /\ Unlocked(o)
  /\ counter' = [counter EXCEPT ![o] = @ + 1]
  /\ IF counter[o] + 1 = Size[o] THEN Resolve(p, o)
     ELSE UNCHANGED <<pc, p_unit, lock, ready>>
  /\ UNCHANGED <<schedVars, signalled, listVars, waiters, freed, arrived>>

(* The loop of set: p_next is read before the waiter is made ready.        *)
Wake(p) ==
  LET u == p_unit[p] IN
  /\ pc[p] = "wake" /\ Kind[obj[p]] # "barrier" /\ Executes(p)
  /\ p_unit' = [p_unit EXCEPT ![p] = p_next[u]]
  /\ p_next' = [p_next EXCEPT ![u] = None]
  /\ Release(u)
  /\ Goto(p, IF p_next[u] = None THEN "last" ELSE "wake")
  /\ UNCHANGED <<obj, calls, p_head, p_tail, lock, ready, counter, waiters, freed, arrived>>

WakeLast(p) ==
  LET o == obj[p] IN
  /\ pc[p] = "last" /\ o \in Lists /\ Executes(p)
  /\ p_head' = [p_head EXCEPT ![o] = None] /\ p_tail' = [p_tail EXCEPT ![o] = None]
  /\ lock' = [lock EXCEPT ![o] = None]
  /\ Goto(p, "user")
  /\ UNCHANGED <<schedVars, obj, p_unit, calls, signalled, p_next, ready, counter, waiters,
                 freed, arrived>>

(* ABT_eventual_reset and ABT_future_reset.                                *)
Reset(p, o) ==
  /\ o \in Lists /\ Calls(p, o) /\ Unlocked(o) /\ ready[o]
  /\ ready' = [ready EXCEPT ![o] = FALSE]
  /\ UNCHANGED <<schedVars, pc, p_unit, signalled, listVars, lock, counter, waiters, freed, arrived>>
-----------------------------------------------------------------------------
Arrive(p, o) ==
  /\ o \in Barriers /\ Calls(p, o)
  /\ counter' = [counter EXCEPT ![o] = @ + 1]
  /\ arrived' = [arrived EXCEPT ![o][p] = @ + 1]
  /\ IF counter[o] + 1 < Size[o]
     THEN /\ waiters' = [waiters EXCEPT ![o] = Append(@, p)]
          /\ Block(p)
          /\ UNCHANGED <<p_unit, lock>>
     ELSE /\ lock' = [lock EXCEPT ![o] = p]
          /\ Goto(p, "wake")
          /\ UNCHANGED <<schedVars, signalled, waiters, p_unit>>
  /\ UNCHANGED <<listVars, ready, freed>>

(* Mutant: a waiter that comes back early does not find the lock held.     *)
BarrierWaitUnlocked(p, o) == Arrive(p, o)

(* ABT_barrier_wait                                                        *)
BarrierWait(p, o) == Unlocked(o) /\ Arrive(p, o)

BarrierWake(p) ==
  LET o == obj[p] IN
  /\ pc[p] = "wake" /\ Kind[o] = "barrier" /\ Executes(p)
  /\ waiters[o] # <<>>
  /\ Release(Head(waiters[o]))
  /\ waiters' = [waiters EXCEPT ![o] = Tail(@)]
  /\ UNCHANGED <<callVars, listVars, lock, ready, counter, freed, arrived>>

BarrierLast(p) ==
  LET o == obj[p] IN
  /\ pc[p] = "wake" /\ Kind[o] = "barrier" /\ Executes(p)
  /\ waiters[o] = <<>>
  /\ counter' = [counter EXCEPT ![o] = 0]
  /\ lock' = [lock EXCEPT ![o] = None]
  /\ Goto(p, "user")
  /\ UNCHANGED <<schedVars, obj, p_unit, calls, signalled, listVars, ready, waiters, freed, arrived>>
-----------------------------------------------------------------------------
(* The second half of ABTI_thread_suspend or of the poll of ext_signal.    *)
Suspend(t) ==
  /\ t \in Ults /\ pc[t] = "suspend"
  /\ SuspendUlt(t)
  /\ Goto(t, "waiting")
  /\ UNCHANGED <<obj, p_unit, calls, signalled, listVars, lock, ready, counter, waiters, freed, arrived>>

Woken(p) == IF p \in Ults THEN Executes(p) ELSE p \in signalled

WaitReturn(p) ==
  /\ pc[p] = "waiting" /\ Woken(p)
  /\ Goto(p, "user")
  /\ UNCHANGED <<schedVars, obj, p_unit, calls, signalled, listVars, lock, ready, counter, waiters,
                 freed, arrived>>

(* The free routines.  A program frees an object that all its waits have   *)
(* returned from; a caller of set, or the last to arrive at a barrier, may *)
(* still be waking.  barrier_free tests the counter before it has the lock.*)
Waits(p, o) == pc[p] \in {"suspend", "waiting"} /\ obj[p] = o

Used(o) == IF Kind[o] = "barrier" THEN \E p \in Uses[o] : arrived[o][p] > 0 ELSE ready[o]

FreeCall(p, o) ==
  /\ Used(o) /\ \A q \in Callers : ~ Waits(q, o)
  /\ Calls(p, o)
  /\ Goto(p, "free")
  /\ UNCHANGED <<schedVars, p_unit, signalled, listVars, lock, ready, counter, waiters, freed, arrived>>

(* Mutant: the lock is not needed to free what nobody waits for.           *)
FreeUnlocked(p) ==
  LET o == obj[p] IN
  /\ pc[p] = "free" /\ Executes(p)
  /\ freed' = freed \cup {o}
  /\ Goto(p, "user")
  /\ UNCHANGED <<schedVars, obj, p_unit, calls, signalled, listVars, lock, ready, counter, waiters, arrived>>

FreeObject(p) ==
  LET o == obj[p] IN
  /\ pc[p] = "free" /\ Executes(p)
  /\ Unlocked(o)
  /\ lock' = [lock EXCEPT ![o] = p]
  /\ freed' = freed \cup {o}
  /\ Goto(p, "user")
  /\ UNCHANGED <<schedVars, obj, p_unit, calls, signalled, listVars, ready, counter, waiters, arrived>>
-----------------------------------------------------------------------------
Yield(t) == pc[t] = "user" /\ YieldUlt(t) /\ UNCHANGED <<callVars, signalled, listVars, lock,
              ready, counter, waiters, freed, arrived>>

Run(e, t) == Dispatch(e, t) /\ UNCHANGED <<callVars, signalled, listVars, lock, ready, counter,
               waiters, freed, arrived>>

Init ==
  /\ SchedInit
  /\ pc = [p \in Callers |-> "user"]
  /\ obj = [p \in Callers |-> None]
  /\ p_unit = [p \in Callers |-> None]
  /\ signalled = {}
  /\ p_next = [p \in Callers |-> None]
  /\ lock = [o \in Objects |-> None]
  /\ ready = [o \in Objects |-> FALSE]
  /\ counter = [o \in Objects |-> 0]
  /\ p_head = [o \in Objects |-> None] /\ p_tail = [o \in Objects |-> None]
  /\ waiters = [o \in Objects |-> <<>>]
  /\ freed = {}
  /\ calls = [p \in Callers |-> 0]
  /\ arrived = [o \in Objects |-> [p \in Callers |-> 0]]

CallStep(p) ==
  \E o \in Objects :
    Wait(p, o) \/ EventualSet(p, o) \/ FutureSet(p, o) \/ Reset(p, o) \/ BarrierWait(p, o)
      \/ FreeCall(p, o)

RuntimeStep(p) ==
  Wake(p) \/ WakeLast(p) \/ BarrierWake(p) \/ BarrierLast(p) \/ Suspend(p) \/ WaitReturn(p)
    \/ FreeObject(p)

Next ==
  \/ \E p \in Callers : CallStep(p) \/ RuntimeStep(p)
  \/ \E t \in Ults : Yield(t) \/ \E e \in Xstreams : Run(e, t)

Spec == Init /\ [][Next]_vars
-----------------------------------------------------------------------------
(* The waiters on a list from p on: the least set with p that is closed    *)
(* under p_next.                                                           *)
ClosedFrom(p, S) == p \in S \cup {None} /\ \A q \in S : p_next[q] \in S \cup {None}

From(p) == {q \in Callers : \A S \in SUBSET Callers : ClosedFrom(p, S) => q \in S}

(* Whom object o still has to wake: while its lock is held, those that the *)
(* holder has not come to.                                                 *)
Listed(o) ==
  IF o \in Barriers THEN Range(waiters[o])
  ELSE IF Unlocked(o) THEN From(p_head[o])
  ELSE UNION {From(p_unit[p]) : p \in {q \in Callers : pc[q] = "wake" /\ obj[q] = o}}

Released(p) == p \in pool \cup signalled \/ (p \in Ults /\ pc[p] = "waiting" /\ Executes(p))

(* No wakeup is lost and none goes astray: whoever waits for an object is  *)
(* on its list until a waker has come to it, and nobody else is.  An       *)
(* object that is ready has no waiters, so a reset forgets nobody.         *)
NobodyForgotten ==
  \A o \in Objects \ freed :
    /\ Listed(o) = {p \in Callers : Waits(p, o) /\ ~ Released(p)}
    /\ Unlocked(o) /\ ready[o] => Listed(o) = {}

(* How often p has come back from barrier o.                               *)
Passed(p, o) == arrived[o][p] - IF Waits(p, o) THEN 1 ELSE 0

(* The ULT calling ABT_barrier_wait() waits until all the ULTs reach the   *)
(* barrier (barrier.c:151), however often the barrier is used.             *)
BarrierHolds ==
  \A o \in Barriers : \A p, q \in Uses[o] : Passed(p, o) <= arrived[o][q]

(* Nobody is at work on an object that has been freed: the last access of  *)
(* a waker is the release of the lock that the free routine waits for.     *)
NoUseAfterFree ==
  \A o \in freed : \A p \in Callers :
    obj[p] = o => pc[p] = "user"

(* ABTI_ASSERT(p_barrier->counter == 0) of ABT_barrier_free (barrier.c:117)*)
BarrierFreeAssert ==
  [][\A p \in Callers, o \in Barriers : ~ Frees(p, o) /\ Frees(p, o)' => counter[o] = 0]_vars
-----------------------------------------------------------------------------
(* A call goes on while its caller has an ES; ESs run and pop from a FIFO  *)
(* pool; the timer preempts a ULT that keeps its ES.                       *)
FairSpec ==
  /\ Spec
  /\ \A p \in Callers : WF_vars(RuntimeStep(p))
  /\ \A t \in Ults : WF_vars(Yield(t)) /\ SF_vars(\E e \in Xstreams : Run(e, t))

(* Whoever is on the list when the object becomes ready comes back, also   *)
(* if the object is reset, waited for and set again in the meantime.       *)
WaitReturns ==
  \A p \in Callers :
    (\E o \in Objects : p \in Listed(o) /\ ~ Unlocked(o)) ~> pc[p] = "user"
=============================================================================
