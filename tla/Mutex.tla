------------------------------- MODULE Mutex -------------------------------
(***************************************************************************)
(* The mutex: lock and lock_low, which queue the ULTs that have to wait in *)
(* the rows of a table, one row per ES; unlock, which wakes waiters in     *)
(* turn over the rows; and unlock_se, which hands the mutex over to a      *)
(* waiter of the caller's own ES.                                          *)
(* Sources: include/abti_mutex.h, mutex.c, thread_htable.c,                *)
(* include/abti_thread_htable.h.                                           *)
(*                                                                         *)
(* The lock of the table is modelled where it is held over two steps; the  *)
(* lock of a row covers one.  The nodes of h_list and l_list are the rows  *)
(* themselves, in the order of the circular list from its head.  A failed  *)
(* trylock, and the spinning of spinlock, change nothing.                  *)
(***************************************************************************)
EXTENDS Blocking, Naturals, FiniteSets, Sequences

CONSTANTS
  Programs,       \* records: serves[t] the ESs that pop from the pool of ULT t,
                  \* low, se: the ULTs that use lock_low and unlock_se,
                  \* uses[p]: how often caller p locks (a bound)
  MaxHandovers, MaxWakeups    \* attributes of the mutex

ASSUME MutexAssumption ==
  /\ None \notin Callers /\ Ults \cap Externals = {}
  /\ Programs \subseteq [serves : [Ults -> SUBSET Xstreams], low : SUBSET Ults, se : SUBSET Ults,
                          uses : [Callers -> Nat]]
  /\ MaxHandovers \in Nat \ {0} /\ MaxWakeups \in Nat \ {0}

VARIABLES
  prog,              \* the program that runs
  pc,                \* where a caller is
  popped,            \* the ULT a caller has popped from a row and is about to wake
  wakes, locks,      \* how many it has woken in this call; how often it has locked
  val,               \* 0 unlocked, 1 locked, 2 locked and perhaps with waiters
  p_handover, p_giver,
  htlock,            \* the holder of the lock of the table
  h_row, l_row,      \* the rows: the waiters of an ES with high and low priority
  h_list, l_list,    \* the rows that are linked
  num_handovers

callVars == <<pc, popped, wakes, locks>>
rowVars  == <<h_row, l_row, h_list, l_list>>
handVars == <<p_handover, p_giver, num_handovers>>
vars == <<prog, schedVars, callVars, val, handVars, htlock, rowVars>>

(* Who has one of these labels owns the mutex.                             *)
Owning == {"cs", "store", "se.check", "se.pop", "se.poplow"}
Labels == Owning \cup {"user", "exch", "check", "push", "suspend", "switching", "queued",
                       "wake", "ready", "se.switch", "given", "yield"}

TypeOK ==
  /\ prog \in Programs /\ SchedTypeOK
  /\ pc \in [Callers -> Labels] /\ popped \in [Callers -> Ults \cup {None}]
  /\ wakes \in [Callers -> 0..MaxWakeups] /\ locks \in [Callers -> Nat]
  /\ val \in 0..2
  /\ p_handover \in Ults \cup {None} /\ p_giver \in Ults \cup {None}
  /\ htlock \in Ults \cup {None}
  /\ h_row \in [Xstreams -> Seq(Ults)] /\ l_row \in [Xstreams -> Seq(Ults)]
  /\ h_list \in Seq(Xstreams) /\ l_list \in Seq(Xstreams)
  /\ num_handovers \in [Xstreams -> 0..MaxHandovers]

-----------------------------------------------------------------------------
At(p, l) == pc[p] = l /\ Executes(p)

Goto(p, l) == pc' = [pc EXCEPT ![p] = l]

Runs(e, t) == cur[e] = t

Linked(list, e) == \E i \in DOMAIN list : list[i] = e

AddNode(list, e) == IF Linked(list, e) THEN list ELSE Append(list, e)

(* The first CAS of a lock, or trylock, or a turn of the loop of spinlock, *)
(* which is what an external thread does.                                  *)
LockCas(p) ==
  /\ At(p, "user") /\ locks[p] < prog.uses[p]
  /\ p \in Ults => \A e \in Xstreams : Runs(e, p) /\ p \in prog.low => l_row[e] = <<>>
  /\ IF val = 0 THEN val' = 1 /\ Goto(p, "cs")
     ELSE p \in Ults /\ Goto(p, IF val = 2 THEN "check" ELSE "exch") /\ UNCHANGED val
  /\ locks' = [locks EXCEPT ![p] = @ + 1]
  /\ UNCHANGED <<prog, schedVars, popped, wakes, handVars, htlock, rowVars>>

(* Mutant: a mutex that is being unlocked passes for free.                 *)
LockExchSteals(p) ==
  /\ At(p, "exch")
  /\ val' = 2
  /\ Goto(p, IF val < 2 THEN "cs" ELSE "check")
  /\ UNCHANGED <<prog, schedVars, popped, wakes, locks, handVars, htlock, rowVars>>

(* The exchange of val for 2.                                              *)
LockExch(p) ==
  /\ At(p, "exch")
  /\ val' = 2
  /\ Goto(p, IF val = 0 THEN "cs" ELSE "check")
  /\ UNCHANGED <<prog, schedVars, popped, wakes, locks, handVars, htlock, rowVars>>

(* Mutant: val is not read again under the lock of the table.              *)
WaitCheckBlind(p) ==
  /\ At(p, "check") /\ htlock = None
  /\ htlock' = p /\ Goto(p, "push")
  /\ UNCHANGED <<prog, schedVars, popped, wakes, locks, val, handVars, rowVars>>

(* ABTI_mutex_wait: with the lock of the table held, val must still be 2.  *)
WaitCheck(p) ==
  /\ At(p, "check") /\ htlock = None
  /\ IF val = 2 THEN htlock' = p /\ Goto(p, "push")
                ELSE Goto(p, "exch") /\ UNCHANGED htlock
  /\ UNCHANGED <<prog, schedVars, popped, wakes, locks, val, handVars, rowVars>>

WaitPush(e, p) ==
  /\ Runs(e, p) /\ pc[p] = "push"
  /\ SetBlocked(p)
  /\ IF p \in prog.low
     THEN /\ l_list' = AddNode(l_list, e)
          /\ l_row' = [l_row EXCEPT ![e] = Append(@, p)]
          /\ UNCHANGED <<h_list, h_row>>
     ELSE /\ h_list' = AddNode(h_list, e)
          /\ h_row' = [h_row EXCEPT ![e] = Append(@, p)]
          /\ UNCHANGED <<l_list, l_row>>
  /\ htlock' = None
  /\ Goto(p, "suspend")
  /\ UNCHANGED <<prog, cur, pool, popped, wakes, locks, val, handVars>>

Suspend(p) ==
  /\ pc[p] = "suspend"
  /\ SuspendUlt(p)
  /\ Goto(p, "queued")
  /\ UNCHANGED <<prog, popped, wakes, locks, val, handVars, htlock, rowVars>>

(* ABTI_thread_htable_switch_low: the caller takes the place of the first  *)
(* waiter of low priority of its ES, which tries in its stead.             *)
LockLowSwitch(e, p) ==
  /\ Runs(e, p) /\ pc[p] = "user" /\ p \in prog.low /\ locks[p] < prog.uses[p]
  /\ l_row[e] # <<>>
  /\ l_row' = [l_row EXCEPT ![e] = Append(Tail(@), p)]
  /\ popped' = [popped EXCEPT ![p] = Head(l_row[e])]
  /\ locks' = [locks EXCEPT ![p] = @ + 1]
  /\ Goto(p, "switching")
  /\ UNCHANGED <<prog, schedVars, wakes, val, handVars, htlock, h_row, h_list, l_list>>

LockLowSwitched(e, p) ==
  /\ Runs(e, p) /\ pc[p] = "switching"
  /\ cur' = [cur EXCEPT ![e] = popped[p]]
  /\ popped' = [popped EXCEPT ![p] = None]
  /\ Goto(p, "queued")
  /\ UNCHANGED <<prog, pool, blocking, wakes, locks, val, handVars, htlock, rowVars>>

(* A waiter goes on: it has been given the mutex, and then pushes the      *)
(* giver to its pool, or it has to try again.                              *)
Resumed(p) ==
  /\ At(p, "queued")
  /\ IF p_handover = p
     THEN /\ p_handover' = None /\ val' = 2
          /\ pool' = pool \cup {p_giver}
          /\ Goto(p, "cs")
     ELSE Goto(p, "exch") /\ UNCHANGED <<p_handover, val, pool>>
  /\ UNCHANGED <<prog, cur, blocking, popped, wakes, locks, p_giver, num_handovers, htlock, rowVars>>
-----------------------------------------------------------------------------
(* The decrement of val by unlock and unlock_se.                           *)
Unlock(p) ==
  /\ At(p, "cs")
  /\ val' = val - 1
  /\ Goto(p, IF val = 1 THEN (IF p \in prog.se THEN "yield" ELSE "user")
             ELSE IF p \in prog.se THEN "se.check" ELSE "store")
  /\ UNCHANGED <<prog, schedVars, popped, wakes, locks, handVars, htlock, rowVars>>

Unlocked(p) == IF p \in prog.se THEN "yield" ELSE "user"

(* Mutant: nobody is woken.                                                *)
UnlockStoreOnly(p) ==
  /\ At(p, "store")
  /\ val' = 0
  /\ Goto(p, Unlocked(p))
  /\ UNCHANGED <<prog, schedVars, popped, wakes, locks, handVars, htlock, rowVars>>

UnlockStore(p) ==
  /\ At(p, "store")
  /\ val' = 0
  /\ wakes' = [wakes EXCEPT ![p] = 0]
  /\ Goto(p, "wake")
  /\ UNCHANGED <<prog, schedVars, popped, locks, handVars, htlock, rowVars>>

(* The first linked row with a waiter: rows that are empty are unlinked on *)
(* the way, and the row that loses a waiter goes to the end of the list    *)
(* or, if it has no other, is unlinked too.                                *)
FirstRow(list, row) ==
  CHOOSE i \in DOMAIN list : row[list[i]] # <<>> /\ \A j \in 1..(i - 1) : row[list[j]] = <<>>

Rotated(list, row) ==
  LET i == FirstRow(list, row)
      rest == SubSeq(list, i + 1, Len(list))
  IN IF Len(row[list[i]]) = 1 THEN rest ELSE Append(rest, list[i])

HasWaiter(list, row) == \E i \in DOMAIN list : row[list[i]] # <<>>

(* ABTI_mutex_wake_de pops a waiter.                                       *)
WakePopHigh(p) ==
  LET e == h_list[FirstRow(h_list, h_row)] IN
  /\ At(p, "wake") /\ htlock = None /\ HasWaiter(h_list, h_row)
  /\ popped' = [popped EXCEPT ![p] = Head(h_row[e])]
  /\ h_row' = [h_row EXCEPT ![e] = Tail(@)]
  /\ h_list' = Rotated(h_list, h_row)
  /\ Goto(p, "ready")
  /\ UNCHANGED <<prog, schedVars, wakes, locks, val, handVars, htlock, l_row, l_list>>

WakePopLow(p) ==
  LET e == l_list[FirstRow(l_list, l_row)] IN
  /\ At(p, "wake") /\ htlock = None
  /\ ~ HasWaiter(h_list, h_row) /\ HasWaiter(l_list, l_row)
  /\ h_list' = <<>>
  /\ popped' = [popped EXCEPT ![p] = Head(l_row[e])]
  /\ l_row' = [l_row EXCEPT ![e] = Tail(@)]
  /\ l_list' = Rotated(l_list, l_row)
  /\ Goto(p, "ready")
  /\ UNCHANGED <<prog, schedVars, wakes, locks, val, handVars, htlock, h_row>>

(* The table is empty (num_elems is 0).                                    *)
WakeNobody(p) ==
  /\ At(p, "wake") /\ htlock = None
  /\ ~ HasWaiter(h_list, h_row) /\ ~ HasWaiter(l_list, l_row)
  /\ Goto(p, Unlocked(p))
  /\ UNCHANGED <<prog, schedVars, popped, wakes, locks, val, handVars, htlock, rowVars>>

WakeReady(p) ==
  /\ At(p, "ready")
  /\ SetReady(popped[p])
  /\ popped' = [popped EXCEPT ![p] = None]
  /\ wakes' = [wakes EXCEPT ![p] = @ + 1]
  /\ Goto(p, IF wakes[p] + 1 < MaxWakeups THEN "wake" ELSE Unlocked(p))
  /\ UNCHANGED <<prog, cur, blocking, locks, val, handVars, htlock, rowVars>>
-----------------------------------------------------------------------------
(* ABTI_mutex_unlock_se with waiters: is a handover possible?              *)
SeCheck(e, p) ==
  LET full == num_handovers[e] >= MaxHandovers IN
  /\ Runs(e, p) /\ pc[p] = "se.check"
  /\ num_handovers' = [num_handovers EXCEPT ![e] = IF full THEN 0 ELSE @]
  /\ Goto(p, IF full THEN "store"
             ELSE IF Len(h_row[e]) > 1 THEN "se.pop"
             ELSE IF h_list = <<>> /\ Len(l_row[e]) > 1 THEN "se.poplow" ELSE "store")
  /\ UNCHANGED <<prog, schedVars, popped, wakes, locks, val, p_handover, p_giver, htlock, rowVars>>

(* The caller pops the head of a row, unless the row has become empty.     *)
PopFor(e, p, row) ==
  IF row[e] = <<>> THEN Goto(p, "se.check") /\ UNCHANGED <<p_handover, p_giver, num_handovers>>
  ELSE /\ p_handover' = Head(row[e]) /\ p_giver' = p
       /\ num_handovers' = [num_handovers EXCEPT ![e] = @ + 1]
       /\ Goto(p, "se.switch")

TailOf(row, e) == [row EXCEPT ![e] = IF @ = <<>> THEN @ ELSE Tail(@)]

SePop(e, p) ==
  /\ Runs(e, p) /\ pc[p] = "se.pop"
  /\ PopFor(e, p, h_row)
  /\ h_row' = TailOf(h_row, e)
  /\ UNCHANGED <<prog, schedVars, popped, wakes, locks, val, htlock, l_row, h_list, l_list>>

SePopLow(e, p) ==
  /\ Runs(e, p) /\ pc[p] = "se.poplow"
  /\ PopFor(e, p, l_row)
  /\ l_row' = TailOf(l_row, e)
  /\ UNCHANGED <<prog, schedVars, popped, wakes, locks, val, htlock, h_row, h_list, l_list>>

(* The caller does not go to its pool: the receiver pushes it.             *)
SeSwitch(e, p) ==
  /\ Runs(e, p) /\ pc[p] = "se.switch"
  /\ p_handover \notin blocking
  /\ cur' = [cur EXCEPT ![e] = p_handover]
  /\ Goto(p, "given")
  /\ UNCHANGED <<prog, pool, blocking, popped, wakes, locks, val, handVars, htlock, rowVars>>

Given(p) ==
  /\ At(p, "given")
  /\ Goto(p, "user")
  /\ UNCHANGED <<prog, schedVars, popped, wakes, locks, val, handVars, htlock, rowVars>>

(* The yield at the end of unlock_se, and any other outside of a call.     *)
Yield(p) ==
  /\ p \in Ults /\ pc[p] \in {"yield", "user", "cs"}
  /\ YieldUlt(p)
  /\ Goto(p, IF pc[p] = "yield" THEN "user" ELSE pc[p])
  /\ UNCHANGED <<prog, popped, wakes, locks, val, handVars, htlock, rowVars>>

Run(e, t) ==
  /\ e \in prog.serves[t]
  /\ Dispatch(e, t)
  /\ UNCHANGED <<prog, callVars, val, handVars, htlock, rowVars>>
-----------------------------------------------------------------------------
Init ==
  /\ prog \in Programs
  /\ SchedInit
  /\ pc = [p \in Callers |-> "user"]
  /\ popped = [p \in Callers |-> None]
  /\ wakes = [p \in Callers |-> 0] /\ locks = [p \in Callers |-> 0]
  /\ val = 0
  /\ p_handover = None /\ p_giver = None
  /\ htlock = None
  /\ h_row = [e \in Xstreams |-> <<>>] /\ l_row = [e \in Xstreams |-> <<>>]
  /\ h_list = <<>> /\ l_list = <<>>
  /\ num_handovers = [e \in Xstreams |-> 0]

LockStep(p) ==
  \/ LockExch(p) \/ WaitCheck(p) \/ Suspend(p) \/ Resumed(p)
  \/ \E e \in Xstreams : WaitPush(e, p) \/ LockLowSwitched(e, p)

UnlockStep(p) ==
  \/ Unlock(p) \/ UnlockStore(p)
  \/ WakePopHigh(p) \/ WakePopLow(p) \/ WakeNobody(p) \/ WakeReady(p) \/ Given(p)
  \/ \E e \in Xstreams : SeCheck(e, p) \/ SePop(e, p) \/ SePopLow(e, p) \/ SeSwitch(e, p)

Next ==
  \/ \E p \in Callers :
       LockCas(p) \/ LockStep(p) \/ UnlockStep(p) \/ Yield(p)
         \/ \E e \in Xstreams : LockLowSwitch(e, p)
  \/ \E e \in Xstreams, t \in Ults : Run(e, t)

Spec == Init /\ [][Next]_vars
-----------------------------------------------------------------------------
(* Who owns the mutex; a handover makes the receiver its owner at once.    *)
Owners == {p \in Callers : pc[p] \in Owning} \cup ({p_handover} \ {None})

(* The mutex is a lock with one owner at a time, who may hand it over.     *)
L == INSTANCE Lock WITH owners <- Owners

ImplementsLock == L!Spec

InRow(p) == \E e \in Xstreams : Linked(h_row[e], p) \/ Linked(l_row[e], p)

SomeWaiter == \E e \in Xstreams : h_row[e] # <<>> \/ l_row[e] # <<>>

(* Somebody will look at the table: a caller of unlock that goes on with   *)
(* the slow path, the receiver of a handover, or a waiter that has been    *)
(* woken and is about to exchange val for 2.                               *)
WillWake(p) ==
  \/ pc[p] \in {"store", "wake", "ready", "se.check", "se.pop", "se.poplow", "se.switch", "exch"}
  \/ (pc[p] \in {"suspend", "queued"} /\ ~ InRow(p))

(* No waiter is forgotten: rows with waiters are linked, and the owner     *)
(* unlocks by the slow path (val is 2) unless somebody else will wake.     *)
NoForgottenWaiter ==
  /\ \A e \in Xstreams :
       (h_row[e] # <<>> => Linked(h_list, e)) /\ (l_row[e] # <<>> => Linked(l_list, e))
  /\ SomeWaiter => val = 2 \/ \E p \in Callers : WillWake(p)

(* Nobody goes on with a ULT whose context has not been saved: no two ESs  *)
(* execute one ULT.                                                        *)
RunsOnce == \A d, e \in Xstreams : cur[d] = cur[e] /\ cur[d] # None => d = e
-----------------------------------------------------------------------------
(* A critical section ends; a call goes on while its caller has an ES; ESs *)
(* run and pop from FIFO pools; the timer preempts a ULT that keeps its ES.*)
FairSpec ==
  /\ Spec
  /\ \A p \in Callers : WF_vars(LockStep(p) \/ UnlockStep(p) \/ Yield(p))
  /\ SF_vars(\E p \in Callers : Unlock(p))
  /\ \A t \in Ults : SF_vars(\E e \in Xstreams : Run(e, t))

(* A ULT that has to wait gets the mutex, if the others lock it only so    *)
(* often.                                                                  *)
LockReturns ==
  \A p \in Ults :
    pc[p] \in {"exch", "check", "push", "suspend", "switching", "queued"} ~> pc[p] = "cs"
=============================================================================
