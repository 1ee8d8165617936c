------------------------------ MODULE CondVar ------------------------------
(***************************************************************************)
(* A condition variable with its mutex: wait, timedwait, signal and        *)
(* broadcast, and the two uses made of them here: the readers-writer lock, *)
(* and a program with a counter of items that takers wait for.             *)
(* Sources: include/abti_cond.h, cond.c, include/abti_rwlock.h.            *)
(*                                                                         *)
(* The mutex is the lock of module Lock; a ULT that finds it locked may    *)
(* leave its ES.  The waiters are linked in a circle by p_next and p_prev. *)
(* A timed waiter polls, like an external thread, with a unit of its own   *)
(* that it frees when it goes on.                                          *)
(***************************************************************************)
EXTENDS Blocking, Naturals, FiniteSets

CONSTANT
  Programs     \* records: does[p] the operations caller p calls, calls[p] how often

Ops == {"rdlock", "wrlock", "take", "timed", "put"}

(* A readers-writer lock has a condition variable of its own.              *)
ASSUME CondAssumption ==
  /\ None \notin Callers /\ Ults \cap Externals = {} /\ IsFiniteSet(Callers)
  /\ Programs \subseteq [does : [Callers -> SUBSET Ops], calls : [Callers -> Nat]]
  /\ \A g \in Programs : \/ \A p \in Callers : g.does[p] \subseteq {"rdlock", "wrlock"}
                         \/ \A p \in Callers : g.does[p] \subseteq {"take", "timed", "put"}

VARIABLES
  prog,                      \* the program that runs
  pc, op, calls,             \* where a caller is, what it does, how often it has called
  owner,                     \* the owner of the mutex
  lock,                      \* the holder of the lock of the condition variable
  p_next, p_prev, p_head, p_tail, num_waiters,
  target, next,              \* the unit a caller wakes, and the one after it
  signalled,                 \* the polling callers whose ext_signal is 1
  reader_count, write_flag,  \* of the readers-writer lock
  mode,                      \* whether a caller has it, and how
  items                      \* of the program

callVars == <<pc, op, calls>>
listVars == <<p_next, p_prev, p_head, p_tail, num_waiters>>
wakeVars == <<target, next, signalled>>
dataVars == <<reader_count, write_flag, mode, items>>
vars == <<prog, schedVars, callVars, owner, lock, listVars, wakeVars, dataVars>>

Labels == {"user", "lock", "leave", "suspend", "waiting", "poll", "remove",
           "remove.lock", "signal", "broadcast", "detach", "wake", "clear", "unlock"}

TypeOK ==
  /\ prog \in Programs /\ SchedTypeOK
  /\ pc \in [Callers -> Labels] /\ op \in [Callers -> Ops \cup {"rwunlock", "timedout"}]
  /\ calls \in [Callers -> Nat]
  /\ owner \in Callers \cup {None} /\ lock \in Callers \cup {None}
  /\ p_next \in [Callers -> Callers \cup {None}] /\ p_prev \in [Callers -> Callers \cup {None}]
  /\ p_head \in Callers \cup {None} /\ p_tail \in Callers \cup {None}
  /\ num_waiters \in 0..Cardinality(Callers)
  /\ target \in [Callers -> Callers \cup {None}] /\ next \in [Callers -> Callers \cup {None}]
  /\ signalled \in SUBSET Callers
  /\ reader_count \in 0..Cardinality(Callers) /\ write_flag \in {0, 1}
  /\ mode \in [Callers -> {"no", "rd", "wr"}] /\ items \in Nat

-----------------------------------------------------------------------------
At(p, l) == pc[p] = l /\ Executes(p)

Goto(p, l) == pc' = [pc EXCEPT ![p] = l]

(* The waiter of a ULT's cond_wait blocks; the others poll ext_signal.     *)
Polls(p) == p \in Externals \/ op[p] \in {"timed", "timedout"}

(* A call of rdlock, wrlock or unlock, or of the program with the items.   *)
Call(p, o) ==
  /\ At(p, "user")
  /\ \/ mode[p] = "no" /\ o \in prog.does[p] /\ calls[p] < prog.calls[p]
     \/ mode[p] # "no" /\ o = "rwunlock"
  /\ op' = [op EXCEPT ![p] = o]
  /\ calls' = [calls EXCEPT ![p] = IF o = "rwunlock" THEN @ ELSE @ + 1]
  /\ Goto(p, "lock")
  /\ UNCHANGED <<prog, schedVars, owner, lock, listVars, wakeVars, dataVars>>

(* Caller p has locked the mutex: for the first time, or after a wait.  A  *)
(* critical section in which nothing else happens is one step.             *)
Locks(p) == At(p, "lock") /\ owner = None

Unlock(p) ==
  /\ At(p, "unlock")
  /\ owner' = None
  /\ Goto(p, "user")
  /\ UNCHANGED <<prog, schedVars, op, calls, lock, listVars, wakeVars, dataVars>>
-----------------------------------------------------------------------------
(* The condition of the loop around wait.                                  *)
MustWait(p) ==
  CASE op[p] = "rdlock" -> write_flag = 1
    [] op[p] = "wrlock" -> write_flag = 1 \/ reader_count > 0
    [] op[p] \in {"take", "timed"} -> items = 0
    [] OTHER -> FALSE

RdLock(p) ==
  /\ Locks(p) /\ op[p] = "rdlock" /\ ~ MustWait(p)
  /\ reader_count' = reader_count + 1
  /\ mode' = [mode EXCEPT ![p] = "rd"]
  /\ Goto(p, "user")
  /\ UNCHANGED <<prog, schedVars, op, calls, owner, lock, listVars, wakeVars, write_flag, items>>

(* Mutant: a single if in the place of the loop.                           *)
WrLockOnce(p) ==
  /\ Locks(p) /\ op[p] = "wrlock" /\ write_flag = 0
  /\ write_flag' = 1
  /\ mode' = [mode EXCEPT ![p] = "wr"]
  /\ Goto(p, "user")
  /\ UNCHANGED <<prog, schedVars, op, calls, owner, lock, listVars, wakeVars, reader_count, items>>

WrLock(p) ==
  /\ Locks(p) /\ op[p] = "wrlock" /\ ~ MustWait(p)
  /\ write_flag' = 1
  /\ mode' = [mode EXCEPT ![p] = "wr"]
  /\ Goto(p, "user")
  /\ UNCHANGED <<prog, schedVars, op, calls, owner, lock, listVars, wakeVars, reader_count, items>>

RwUnlock(p) ==
  /\ Locks(p) /\ op[p] = "rwunlock"
  /\ IF write_flag = 1 THEN write_flag' = 0 /\ UNCHANGED reader_count
                       ELSE reader_count' = reader_count - 1 /\ UNCHANGED write_flag
  /\ mode' = [mode EXCEPT ![p] = "no"]
  /\ owner' = p
  /\ Goto(p, "broadcast")
  /\ UNCHANGED <<prog, schedVars, op, calls, lock, listVars, wakeVars, items>>

Take(p) ==
  /\ Locks(p) /\ op[p] \in {"take", "timed", "timedout"} /\ items > 0
  /\ items' = items - 1
  /\ Goto(p, "user")
  /\ UNCHANGED <<prog, schedVars, op, calls, owner, lock, listVars, wakeVars, reader_count,
                 write_flag, mode>>

(* A taker that has been told that the time is over looks once more.       *)
GiveUp(p) ==
  /\ Locks(p) /\ op[p] = "timedout" /\ items = 0
  /\ Goto(p, "user")
  /\ UNCHANGED <<prog, schedVars, op, calls, owner, lock, listVars, wakeVars, dataVars>>

(* The program signals with the mutex held or after it has unlocked it.    *)
Put(p) ==
  /\ Locks(p) /\ op[p] = "put"
  /\ items' = items + 1
  /\ owner' \in {p, None}
  /\ Goto(p, "signal")
  /\ UNCHANGED <<prog, schedVars, op, calls, lock, listVars, wakeVars, reader_count, write_flag,
                 mode>>
-----------------------------------------------------------------------------
(* ABTI_cond_wait and ABT_cond_timedwait: the caller joins the queue while *)
(* it still has the mutex.                                                 *)
Wait(p) ==
  /\ Locks(p) /\ MustWait(p) /\ lock = None
  /\ IF num_waiters = 0
     THEN /\ p_next' = [p_next EXCEPT ![p] = p] /\ p_prev' = [p_prev EXCEPT ![p] = p]
          /\ p_head' = p
     ELSE /\ p_next' = [p_next EXCEPT ![p_tail] = p, ![p] = p_head]
          /\ p_prev' = [p_prev EXCEPT ![p_head] = p, ![p] = p_tail]
          /\ UNCHANGED p_head
  /\ p_tail' = p
  /\ num_waiters' = num_waiters + 1
  /\ IF Polls(p) THEN signalled' = signalled \ {p} /\ UNCHANGED schedVars
                 ELSE SetBlocked(p) /\ UNCHANGED <<cur, pool, signalled>>
  /\ owner' = p
  /\ Goto(p, "leave")
  /\ UNCHANGED <<prog, op, calls, lock, target, next, dataVars>>

WaitUnlock(p) ==
  /\ At(p, "leave")
  /\ owner' = None
  /\ Goto(p, IF Polls(p) THEN "poll" ELSE "suspend")
  /\ UNCHANGED <<prog, schedVars, op, calls, lock, listVars, wakeVars, dataVars>>

Suspend(p) ==
  /\ pc[p] = "suspend"
  /\ SuspendUlt(p)
  /\ Goto(p, "waiting")
  /\ UNCHANGED <<prog, op, calls, owner, lock, listVars, wakeVars, dataVars>>

(* The waiter has been woken and locks the mutex again.                    *)
Woken(p) ==
  /\ \/ At(p, "waiting")
     \/ At(p, "poll") /\ p \in signalled
  /\ Goto(p, "lock")
  /\ UNCHANGED <<prog, schedVars, op, calls, owner, lock, listVars, wakeVars, dataVars>>

(* A timed waiter has found ext_signal 0 and then the time over.           *)
TimeOut(p) ==
  /\ At(p, "poll") /\ op[p] = "timed" /\ p \notin signalled
  /\ op' = [op EXCEPT ![p] = "timedout"]
  /\ Goto(p, "remove")
  /\ UNCHANGED <<prog, schedVars, calls, owner, lock, listVars, wakeVars, dataVars>>

(* remove_unit: the first test is made without the lock.                   *)
RemoveTest(p) ==
  /\ At(p, "remove")
  /\ Goto(p, IF p_next[p] = None THEN "lock" ELSE "remove.lock")
  /\ UNCHANGED <<prog, schedVars, op, calls, owner, lock, listVars, wakeVars, dataVars>>

(* Unit u, the head for signal, leaves the queue.                          *)
Unlink(u) ==
  /\ num_waiters' = num_waiters - 1
  /\ IF num_waiters = 1
     THEN /\ p_head' = None /\ p_tail' = None
          /\ p_next' = [p_next EXCEPT ![u] = None] /\ p_prev' = [p_prev EXCEPT ![u] = None]
     ELSE /\ p_next' = [p_next EXCEPT ![p_prev[u]] = p_next[u], ![u] = None]
          /\ p_prev' = [p_prev EXCEPT ![p_next[u]] = p_prev[u], ![u] = None]
          /\ p_head' = IF u = p_head THEN p_next[u] ELSE p_head
          /\ p_tail' = IF u # p_head /\ u = p_tail THEN p_prev[u] ELSE p_tail

(* Mutant: what is in the queue now is not looked at under the lock.       *)
RemoveLockedBlind(p) ==
  /\ At(p, "remove.lock") /\ lock = None
  /\ num_waiters > 0 /\ Unlink(p_head)
  /\ Goto(p, "lock")
  /\ UNCHANGED <<prog, schedVars, op, calls, owner, lock, wakeVars, dataVars>>

RemoveLocked(p) ==
  /\ At(p, "remove.lock") /\ lock = None
  /\ IF p_next[p] = None THEN UNCHANGED listVars ELSE Unlink(p)
  /\ Goto(p, "lock")
  /\ UNCHANGED <<prog, schedVars, op, calls, owner, lock, wakeVars, dataVars>>
-----------------------------------------------------------------------------
(* Where a caller goes on after signal or broadcast.                       *)
Caller(p) == IF owner = p THEN "unlock" ELSE "user"

Nobody(p) ==
  /\ pc[p] \in {"signal", "broadcast"} /\ Executes(p)
  /\ lock = None /\ num_waiters = 0
  /\ Goto(p, Caller(p))
  /\ UNCHANGED <<prog, schedVars, op, calls, owner, lock, listVars, wakeVars, dataVars>>

(* ABT_cond_signal takes the head off the queue.                           *)
Signal(p) ==
  /\ At(p, "signal") /\ lock = None /\ num_waiters > 0
  /\ lock' = p
  /\ target' = [target EXCEPT ![p] = p_head]
  /\ Unlink(p_head)
  /\ Goto(p, "wake")
  /\ UNCHANGED <<prog, schedVars, op, calls, owner, next, signalled, dataVars>>

(* ABTI_cond_broadcast goes through the queue.                             *)
Broadcast(p) ==
  /\ At(p, "broadcast") /\ lock = None /\ num_waiters > 0
  /\ lock' = p
  /\ target' = [target EXCEPT ![p] = p_head]
  /\ Goto(p, "detach")
  /\ UNCHANGED <<prog, schedVars, op, calls, owner, listVars, next, signalled, dataVars>>

Detach(p) ==
  /\ At(p, "detach")
  /\ next' = [next EXCEPT ![p] = p_next[target[p]]]
  /\ p_prev' = [p_prev EXCEPT ![target[p]] = None]
  /\ p_next' = [p_next EXCEPT ![target[p]] = None]
  /\ Goto(p, "wake")
  /\ UNCHANGED <<prog, schedVars, op, calls, owner, lock, p_head, p_tail, num_waiters, target,
                 signalled, dataVars>>

(* The unit of a timed waiter may have been freed since it was taken off   *)
(* the queue: the store to ext_signal then hits a stack frame that has     *)
(* been left, or that of the next call.  A unit whose wait is over already *)
(* was that of a polling waiter, whatever its caller does now.             *)
Release(u) ==
  IF ~ Polls(u) /\ pc[u] \in {"leave", "suspend", "waiting"}
  THEN SetReady(u) /\ UNCHANGED <<cur, blocking, signalled>>
  ELSE /\ \/ signalled' = signalled \cup {u}
          \/ pc[u] \notin {"leave", "poll", "remove", "remove.lock"} /\ UNCHANGED signalled
       /\ UNCHANGED schedVars

(* Mutant: the last waiter is left out.                                    *)
WakeEarly(p) ==
  /\ At(p, "wake")
  /\ Release(target[p])
  /\ IF op[p] = "put"
     THEN lock' = None /\ Goto(p, Caller(p)) /\ target' = [target EXCEPT ![p] = None]
          /\ UNCHANGED next
     ELSE /\ UNCHANGED lock
          /\ IF next[p] = p_tail
             THEN Goto(p, "clear") /\ target' = [target EXCEPT ![p] = None]
             ELSE Goto(p, "detach") /\ target' = [target EXCEPT ![p] = next[p]]
          /\ next' = [next EXCEPT ![p] = None]
  /\ UNCHANGED <<prog, op, calls, owner, listVars, dataVars>>

Wake(p) ==
  /\ At(p, "wake")
  /\ Release(target[p])
  /\ IF op[p] = "put"
     THEN /\ lock' = None /\ Goto(p, Caller(p)) /\ target' = [target EXCEPT ![p] = None]
          /\ UNCHANGED next
     ELSE /\ UNCHANGED lock
          /\ IF next[p] = p_head
             THEN Goto(p, "clear") /\ target' = [target EXCEPT ![p] = None]
             ELSE Goto(p, "detach") /\ target' = [target EXCEPT ![p] = next[p]]
          /\ next' = [next EXCEPT ![p] = None]
  /\ UNCHANGED <<prog, op, calls, owner, listVars, dataVars>>

Clear(p) ==
  /\ At(p, "clear")
  /\ num_waiters' = 0 /\ p_head' = None /\ p_tail' = None
  /\ lock' = None
  /\ Goto(p, Caller(p))
  /\ UNCHANGED <<prog, schedVars, op, calls, owner, p_next, p_prev, wakeVars, dataVars>>
-----------------------------------------------------------------------------
Finished(p) == pc[p] = "user" /\ mode[p] = "no" /\ calls[p] = prog.calls[p]

(* A ULT leaves its ES outside of a call, while it waits for the mutex, or *)
(* between two polls; or it ends.                                          *)
Yield(p) ==
  /\ p \in Ults
  /\ \/ pc[p] = "user" /\ ~ Finished(p)
     \/ pc[p] = "poll" /\ p \notin signalled
     \/ pc[p] = "lock" /\ owner # None
  /\ YieldUlt(p)
  /\ UNCHANGED <<prog, callVars, owner, lock, listVars, wakeVars, dataVars>>

End(p) ==
  /\ p \in Ults /\ Finished(p) /\ Executes(p)
  /\ BackToSched(p)
  /\ UNCHANGED <<prog, pool, blocking, callVars, owner, lock, listVars, wakeVars, dataVars>>

Run(e, t) ==
  /\ Dispatch(e, t)
  /\ UNCHANGED <<prog, callVars, owner, lock, listVars, wakeVars, dataVars>>

Init ==
  /\ prog \in Programs /\ calls = [p \in Callers |-> 0]
  /\ pc = [p \in Callers |-> "user"]
  /\ op = [p \in Callers |-> "put"]
  /\ owner = None /\ lock = None
  /\ p_next = [p \in Callers |-> None] /\ p_prev = [p \in Callers |-> None]
  /\ p_head = None /\ p_tail = None /\ num_waiters = 0
  /\ target = [p \in Callers |-> None] /\ next = [p \in Callers |-> None]
  /\ signalled = {}
  /\ reader_count = 0 /\ write_flag = 0
  /\ mode = [p \in Callers |-> "no"]
  /\ cur = [e \in Xstreams |-> None] /\ pool = {t \in Ults : ~ Finished(t)} /\ blocking = {}
  /\ items = 0

CallStep(p) == \E o \in Ops \cup {"rwunlock"} : Call(p, o)

WaitStep(p) ==
  Wait(p) \/ WaitUnlock(p) \/ Suspend(p) \/ Woken(p) \/ TimeOut(p) \/ RemoveTest(p)
    \/ RemoveLocked(p)

WakeStep(p) ==
  Nobody(p) \/ Signal(p) \/ Broadcast(p) \/ Detach(p) \/ Wake(p) \/ Clear(p)

LockedStep(p) ==
  Unlock(p) \/ RdLock(p) \/ WrLock(p) \/ RwUnlock(p) \/ Take(p) \/ GiveUp(p) \/ Put(p)

Next ==
  \/ \E p \in Callers : CallStep(p) \/ WaitStep(p) \/ WakeStep(p) \/ LockedStep(p) \/ Yield(p) \/ End(p)
  \/ \E e \in Xstreams, t \in Ults : Run(e, t)

Spec == Init /\ [][Next]_vars
-----------------------------------------------------------------------------
(* Caller p is in a wait and no waker has come to it.                      *)
Waits(p) ==
  /\ pc[p] \in {"leave", "suspend", "waiting", "poll", "remove", "remove.lock"}
  /\ IF Polls(p) THEN p \notin signalled
                 ELSE p \notin pool /\ ~ (pc[p] = "waiting" /\ Executes(p))
  /\ \A q \in Callers : target[q] # p

(* The circle from unit u on: the least set with u that is closed under    *)
(* p_next.                                                                 *)
Circle(u) ==
  {q \in Callers : \A S \in SUBSET Callers :
     u \in S /\ (\A r \in S : p_next[r] \in S \cup {None}) => q \in S}

(* The queue is the circle of those that wait, with the right links, head, *)
(* tail and count, whoever is removed from its middle by a time-out: no    *)
(* waiter is lost or left in the queue.                                    *)
QueueHolds ==
  lock = None =>
    /\ num_waiters = Cardinality({p \in Callers : p_next[p] # None})
    /\ \A p \in Callers : p_next[p] # None => p_prev[p_next[p]] = p
    /\ IF num_waiters = 0 THEN p_head = None
       ELSE /\ p_prev[p_head] = p_tail
            /\ Circle(p_head) = {p \in Callers : p_next[p] # None}
    /\ \A p \in Callers : p_next[p] # None <=> Waits(p)

(* A writer has the readers-writer lock alone, and its fields say who has  *)
(* it, although unlock does not know which kind its caller is.             *)
RwExclusion ==
  LET readers == {p \in Callers : mode[p] = "rd"}
      writers == {p \in Callers : mode[p] = "wr"}
  IN /\ reader_count = Cardinality(readers) /\ write_flag = Cardinality(writers)
     /\ writers # {} => readers = {}

(* Who will look at the items without being woken by a further put.        *)
OnTheWay(p) ==
  \/ op[p] = "put" /\ pc[p] \in {"signal", "wake"}
  \/ op[p] \in {"take", "timed", "timedout"} /\ pc[p] # "user" /\ ~ Waits(p)

(* No signal is lost: while somebody waits, there is a signal or a taker   *)
(* on its way for every item, also if the signal meets a time-out.         *)
NoSignalLost ==
  (\E p \in Callers : Waits(p)) => items <= Cardinality({p \in Callers : OnTheWay(p)})

(* A unit that is being signalled has not been freed by its waiter.        *)
UnitsAlive ==
  \A p \in Callers : target[p] # None => pc[target[p]] # "lock"
-----------------------------------------------------------------------------
(* A call goes on while its caller has an ES; the time of a timed wait     *)
(* passes; the program calls put and gives the lock up; ESs run and pop    *)
(* from FIFO pools.                                                        *)
FairSpec ==
  /\ Spec
  /\ \A p \in Callers : WF_vars(WaitStep(p) \/ WakeStep(p) \/ LockedStep(p) \/ Yield(p) \/ End(p))
  /\ SF_vars(\E p \in Callers : TimeOut(p))
  /\ SF_vars(\E p \in Callers : Call(p, "put") \/ Call(p, "rwunlock"))
  /\ \A t \in Ults : SF_vars(\E e \in Xstreams : Run(e, t))

(* Every call returns, as long as the others unlock and there are items or *)
(* will be: a taker only waits for ever when all items have been taken.    *)
NoMoreItems == items = 0 /\ \A p \in Callers : "put" \in prog.does[p] => Finished(p)

CallsReturn ==
  \A p \in Callers : pc[p] = "lock" ~> (pc[p] = "user" \/ (op[p] = "take" /\ NoMoreItems))
=============================================================================
